---- MODULE Spec2Model ----
(***************************************************************************)
(* A model of LinkedInProfileScraper (src/linkedin_scraper.py): the        *)
(* session life cycle (setup_driver, close, the with-block), the two       *)
(* login flows, and scrape_profile's navigation and field extraction.      *)
(*                                                                         *)
(* Text is a sequence of one-character strings, so that strip, split,      *)
(* lower, substring tests and the date regexes are computed, not assumed.  *)
(* The browser is the environment: what a page answers to each locator is  *)
(* given by the page served for the requested target; what the browser     *)
(* reports as current URL and whether a driver command raises are chosen   *)
(* nondeterministically.                                                   *)
(***************************************************************************)
EXTENDS Integers, Sequences, FiniteSets, TLC

----------------------------------------------------------------------------
(* Bounds of the model.                                                    *)

\* most scrape_profile calls a caller makes on one scraper
MaxCalls == 2
\* most explicit close() calls a caller makes on one scraper
MaxCloses == 2
\* most candidate item elements a page yields beyond a list's cap
MaxExtra == 1
\* most time units one read of current_url takes
MaxLatency == 1

----------------------------------------------------------------------------
(* Text: Python str operations.                                            *)

NL == "\n"

\* A character is a one-character string. A character that a TLA+ string
\* cannot hold (a control character other than \t \n \f \r, the backquote,
\* every non-ASCII character) is written "u" followed by its code point in
\* hexadecimal, at least four digits: "u00a0" is U+00A0, "u1d7ce" U+1D7CE.
\* The tables below are those of the Unicode database the interpreter
\* carries (14.0.0).

\* the characters str.strip() removes and \s matches (str.isspace())
WhiteSpace ==
    { "\t", "\n", "u000b", "\f", "\r", "u001c", "u001d", "u001e", "u001f", " ", "u0085",
      "u00a0", "u1680", "u2000", "u2001", "u2002", "u2003", "u2004", "u2005", "u2006", "u2007",
      "u2008", "u2009", "u200a", "u2028", "u2029", "u202f", "u205f", "u3000" }

IsSpace(c) == c \in WhiteSpace

\* the characters \d matches in a str pattern (category Nd)
DecimalDigits ==
    { "0", "1", "2", "3", "4", "5", "6", "7", "8", "9", "u0660", "u0661", "u0662", "u0663",
      "u0664", "u0665", "u0666", "u0667", "u0668", "u0669", "u06f0", "u06f1", "u06f2", "u06f3",
      "u06f4", "u06f5", "u06f6", "u06f7", "u06f8", "u06f9", "u07c0", "u07c1", "u07c2", "u07c3",
      "u07c4", "u07c5", "u07c6", "u07c7", "u07c8", "u07c9", "u0966", "u0967", "u0968", "u0969",
      "u096a", "u096b", "u096c", "u096d", "u096e", "u096f", "u09e6", "u09e7", "u09e8", "u09e9",
      "u09ea", "u09eb", "u09ec", "u09ed", "u09ee", "u09ef", "u0a66", "u0a67", "u0a68", "u0a69",
      "u0a6a", "u0a6b", "u0a6c", "u0a6d", "u0a6e", "u0a6f", "u0ae6", "u0ae7", "u0ae8", "u0ae9",
      "u0aea", "u0aeb", "u0aec", "u0aed", "u0aee", "u0aef", "u0b66", "u0b67", "u0b68", "u0b69",
      "u0b6a", "u0b6b", "u0b6c", "u0b6d", "u0b6e", "u0b6f", "u0be6", "u0be7", "u0be8", "u0be9",
      "u0bea", "u0beb", "u0bec", "u0bed", "u0bee", "u0bef", "u0c66", "u0c67", "u0c68", "u0c69",
      "u0c6a", "u0c6b", "u0c6c", "u0c6d", "u0c6e", "u0c6f", "u0ce6", "u0ce7", "u0ce8", "u0ce9",
      "u0cea", "u0ceb", "u0cec", "u0ced", "u0cee", "u0cef", "u0d66", "u0d67", "u0d68", "u0d69",
      "u0d6a", "u0d6b", "u0d6c", "u0d6d", "u0d6e", "u0d6f", "u0de6", "u0de7", "u0de8", "u0de9",
      "u0dea", "u0deb", "u0dec", "u0ded", "u0dee", "u0def", "u0e50", "u0e51", "u0e52", "u0e53",
      "u0e54", "u0e55", "u0e56", "u0e57", "u0e58", "u0e59", "u0ed0", "u0ed1", "u0ed2", "u0ed3",
      "u0ed4", "u0ed5", "u0ed6", "u0ed7", "u0ed8", "u0ed9", "u0f20", "u0f21", "u0f22", "u0f23",
      "u0f24", "u0f25", "u0f26", "u0f27", "u0f28", "u0f29", "u1040", "u1041", "u1042", "u1043",
      "u1044", "u1045", "u1046", "u1047", "u1048", "u1049", "u1090", "u1091", "u1092", "u1093",
      "u1094", "u1095", "u1096", "u1097", "u1098", "u1099", "u17e0", "u17e1", "u17e2", "u17e3",
      "u17e4", "u17e5", "u17e6", "u17e7", "u17e8", "u17e9", "u1810", "u1811", "u1812", "u1813",
      "u1814", "u1815", "u1816", "u1817", "u1818", "u1819", "u1946", "u1947", "u1948", "u1949",
      "u194a", "u194b", "u194c", "u194d", "u194e", "u194f", "u19d0", "u19d1", "u19d2", "u19d3",
      "u19d4", "u19d5", "u19d6", "u19d7", "u19d8", "u19d9", "u1a80", "u1a81", "u1a82", "u1a83",
      "u1a84", "u1a85", "u1a86", "u1a87", "u1a88", "u1a89", "u1a90", "u1a91", "u1a92", "u1a93",
      "u1a94", "u1a95", "u1a96", "u1a97", "u1a98", "u1a99", "u1b50", "u1b51", "u1b52", "u1b53",
      "u1b54", "u1b55", "u1b56", "u1b57", "u1b58", "u1b59", "u1bb0", "u1bb1", "u1bb2", "u1bb3",
      "u1bb4", "u1bb5", "u1bb6", "u1bb7", "u1bb8", "u1bb9", "u1c40", "u1c41", "u1c42", "u1c43",
      "u1c44", "u1c45", "u1c46", "u1c47", "u1c48", "u1c49", "u1c50", "u1c51", "u1c52", "u1c53",
      "u1c54", "u1c55", "u1c56", "u1c57", "u1c58", "u1c59", "ua620", "ua621", "ua622", "ua623",
      "ua624", "ua625", "ua626", "ua627", "ua628", "ua629", "ua8d0", "ua8d1", "ua8d2", "ua8d3",
      "ua8d4", "ua8d5", "ua8d6", "ua8d7", "ua8d8", "ua8d9", "ua900", "ua901", "ua902", "ua903",
      "ua904", "ua905", "ua906", "ua907", "ua908", "ua909", "ua9d0", "ua9d1", "ua9d2", "ua9d3",
      "ua9d4", "ua9d5", "ua9d6", "ua9d7", "ua9d8", "ua9d9", "ua9f0", "ua9f1", "ua9f2", "ua9f3",
      "ua9f4", "ua9f5", "ua9f6", "ua9f7", "ua9f8", "ua9f9", "uaa50", "uaa51", "uaa52", "uaa53",
      "uaa54", "uaa55", "uaa56", "uaa57", "uaa58", "uaa59", "uabf0", "uabf1", "uabf2", "uabf3",
      "uabf4", "uabf5", "uabf6", "uabf7", "uabf8", "uabf9", "uff10", "uff11", "uff12", "uff13",
      "uff14", "uff15", "uff16", "uff17", "uff18", "uff19", "u104a0", "u104a1", "u104a2",
      "u104a3", "u104a4", "u104a5", "u104a6", "u104a7", "u104a8", "u104a9", "u10d30", "u10d31",
      "u10d32", "u10d33", "u10d34", "u10d35", "u10d36", "u10d37", "u10d38", "u10d39", "u11066",
      "u11067", "u11068", "u11069", "u1106a", "u1106b", "u1106c", "u1106d", "u1106e", "u1106f",
      "u110f0", "u110f1", "u110f2", "u110f3", "u110f4", "u110f5", "u110f6", "u110f7", "u110f8",
      "u110f9", "u11136", "u11137", "u11138", "u11139", "u1113a", "u1113b", "u1113c", "u1113d",
      "u1113e", "u1113f", "u111d0", "u111d1", "u111d2", "u111d3", "u111d4", "u111d5", "u111d6",
      "u111d7", "u111d8", "u111d9", "u112f0", "u112f1", "u112f2", "u112f3", "u112f4", "u112f5",
      "u112f6", "u112f7", "u112f8", "u112f9", "u11450", "u11451", "u11452", "u11453", "u11454",
      "u11455", "u11456", "u11457", "u11458", "u11459", "u114d0", "u114d1", "u114d2", "u114d3",
      "u114d4", "u114d5", "u114d6", "u114d7", "u114d8", "u114d9", "u11650", "u11651", "u11652",
      "u11653", "u11654", "u11655", "u11656", "u11657", "u11658", "u11659", "u116c0", "u116c1",
      "u116c2", "u116c3", "u116c4", "u116c5", "u116c6", "u116c7", "u116c8", "u116c9", "u11730",
      "u11731", "u11732", "u11733", "u11734", "u11735", "u11736", "u11737", "u11738", "u11739",
      "u118e0", "u118e1", "u118e2", "u118e3", "u118e4", "u118e5", "u118e6", "u118e7", "u118e8",
      "u118e9", "u11950", "u11951", "u11952", "u11953", "u11954", "u11955", "u11956", "u11957",
      "u11958", "u11959", "u11c50", "u11c51", "u11c52", "u11c53", "u11c54", "u11c55", "u11c56",
      "u11c57", "u11c58", "u11c59", "u11d50", "u11d51", "u11d52", "u11d53", "u11d54", "u11d55",
      "u11d56", "u11d57", "u11d58", "u11d59", "u11da0", "u11da1", "u11da2", "u11da3", "u11da4",
      "u11da5", "u11da6", "u11da7", "u11da8", "u11da9", "u16a60", "u16a61", "u16a62", "u16a63",
      "u16a64", "u16a65", "u16a66", "u16a67", "u16a68", "u16a69", "u16ac0", "u16ac1", "u16ac2",
      "u16ac3", "u16ac4", "u16ac5", "u16ac6", "u16ac7", "u16ac8", "u16ac9", "u16b50", "u16b51",
      "u16b52", "u16b53", "u16b54", "u16b55", "u16b56", "u16b57", "u16b58", "u16b59", "u1d7ce",
      "u1d7cf", "u1d7d0", "u1d7d1", "u1d7d2", "u1d7d3", "u1d7d4", "u1d7d5", "u1d7d6", "u1d7d7",
      "u1d7d8", "u1d7d9", "u1d7da", "u1d7db", "u1d7dc", "u1d7dd", "u1d7de", "u1d7df", "u1d7e0",
      "u1d7e1", "u1d7e2", "u1d7e3", "u1d7e4", "u1d7e5", "u1d7e6", "u1d7e7", "u1d7e8", "u1d7e9",
      "u1d7ea", "u1d7eb", "u1d7ec", "u1d7ed", "u1d7ee", "u1d7ef", "u1d7f0", "u1d7f1", "u1d7f2",
      "u1d7f3", "u1d7f4", "u1d7f5", "u1d7f6", "u1d7f7", "u1d7f8", "u1d7f9", "u1d7fa", "u1d7fb",
      "u1d7fc", "u1d7fd", "u1d7fe", "u1d7ff", "u1e140", "u1e141", "u1e142", "u1e143", "u1e144",
      "u1e145", "u1e146", "u1e147", "u1e148", "u1e149", "u1e2f0", "u1e2f1", "u1e2f2", "u1e2f3",
      "u1e2f4", "u1e2f5", "u1e2f6", "u1e2f7", "u1e2f8", "u1e2f9", "u1e950", "u1e951", "u1e952",
      "u1e953", "u1e954", "u1e955", "u1e956", "u1e957", "u1e958", "u1e959", "u1fbf0", "u1fbf1",
      "u1fbf2", "u1fbf3", "u1fbf4", "u1fbf5", "u1fbf6", "u1fbf7", "u1fbf8", "u1fbf9" }

IsDigit(c) == c \in DecimalDigits

UpperCase == <<"A","B","C","D","E","F","G","H","I","J","K","L","M",
               "N","O","P","Q","R","S","T","U","V","W","X","Y","Z">>

LowerCase == <<"a","b","c","d","e","f","g","h","i","j","k","l","m",
               "n","o","p","q","r","s","t","u","v","w","x","y","z">>

\* [A-Za-z]
IsLetter(c) == \E i \in 1..26 : c = UpperCase[i] \/ c = LowerCase[i]

\* the characters str.lower() maps to one other character, with that character
LowerPairs ==
    { <<"A", "a">>, <<"B", "b">>, <<"C", "c">>, <<"D", "d">>, <<"E", "e">>, <<"F", "f">>,
      <<"G", "g">>, <<"H", "h">>, <<"I", "i">>, <<"J", "j">>, <<"K", "k">>, <<"L", "l">>,
      <<"M", "m">>, <<"N", "n">>, <<"O", "o">>, <<"P", "p">>, <<"Q", "q">>, <<"R", "r">>,
      <<"S", "s">>, <<"T", "t">>, <<"U", "u">>, <<"V", "v">>, <<"W", "w">>, <<"X", "x">>,
      <<"Y", "y">>, <<"Z", "z">>, <<"u00c0", "u00e0">>, <<"u00c1", "u00e1">>,
      <<"u00c2", "u00e2">>, <<"u00c3", "u00e3">>, <<"u00c4", "u00e4">>, <<"u00c5", "u00e5">>,
      <<"u00c6", "u00e6">>, <<"u00c7", "u00e7">>, <<"u00c8", "u00e8">>, <<"u00c9", "u00e9">>,
      <<"u00ca", "u00ea">>, <<"u00cb", "u00eb">>, <<"u00cc", "u00ec">>, <<"u00cd", "u00ed">>,
      <<"u00ce", "u00ee">>, <<"u00cf", "u00ef">>, <<"u00d0", "u00f0">>, <<"u00d1", "u00f1">>,
      <<"u00d2", "u00f2">>, <<"u00d3", "u00f3">>, <<"u00d4", "u00f4">>, <<"u00d5", "u00f5">>,
      <<"u00d6", "u00f6">>, <<"u00d8", "u00f8">>, <<"u00d9", "u00f9">>, <<"u00da", "u00fa">>,
      <<"u00db", "u00fb">>, <<"u00dc", "u00fc">>, <<"u00dd", "u00fd">>, <<"u00de", "u00fe">>,
      <<"u0100", "u0101">>, <<"u0102", "u0103">>, <<"u0104", "u0105">>, <<"u0106", "u0107">>,
      <<"u0108", "u0109">>, <<"u010a", "u010b">>, <<"u010c", "u010d">>, <<"u010e", "u010f">>,
      <<"u0110", "u0111">>, <<"u0112", "u0113">>, <<"u0114", "u0115">>, <<"u0116", "u0117">>,
      <<"u0118", "u0119">>, <<"u011a", "u011b">>, <<"u011c", "u011d">>, <<"u011e", "u011f">>,
      <<"u0120", "u0121">>, <<"u0122", "u0123">>, <<"u0124", "u0125">>, <<"u0126", "u0127">>,
      <<"u0128", "u0129">>, <<"u012a", "u012b">>, <<"u012c", "u012d">>, <<"u012e", "u012f">>,
      <<"u0132", "u0133">>, <<"u0134", "u0135">>, <<"u0136", "u0137">>, <<"u0139", "u013a">>,
      <<"u013b", "u013c">>, <<"u013d", "u013e">>, <<"u013f", "u0140">>, <<"u0141", "u0142">>,
      <<"u0143", "u0144">>, <<"u0145", "u0146">>, <<"u0147", "u0148">>, <<"u014a", "u014b">>,
      <<"u014c", "u014d">>, <<"u014e", "u014f">>, <<"u0150", "u0151">>, <<"u0152", "u0153">>,
      <<"u0154", "u0155">>, <<"u0156", "u0157">>, <<"u0158", "u0159">>, <<"u015a", "u015b">>,
      <<"u015c", "u015d">>, <<"u015e", "u015f">>, <<"u0160", "u0161">>, <<"u0162", "u0163">>,
      <<"u0164", "u0165">>, <<"u0166", "u0167">>, <<"u0168", "u0169">>, <<"u016a", "u016b">>,
      <<"u016c", "u016d">>, <<"u016e", "u016f">>, <<"u0170", "u0171">>, <<"u0172", "u0173">>,
      <<"u0174", "u0175">>, <<"u0176", "u0177">>, <<"u0178", "u00ff">>, <<"u0179", "u017a">>,
      <<"u017b", "u017c">>, <<"u017d", "u017e">>, <<"u0181", "u0253">>, <<"u0182", "u0183">>,
      <<"u0184", "u0185">>, <<"u0186", "u0254">>, <<"u0187", "u0188">>, <<"u0189", "u0256">>,
      <<"u018a", "u0257">>, <<"u018b", "u018c">>, <<"u018e", "u01dd">>, <<"u018f", "u0259">>,
      <<"u0190", "u025b">>, <<"u0191", "u0192">>, <<"u0193", "u0260">>, <<"u0194", "u0263">>,
      <<"u0196", "u0269">>, <<"u0197", "u0268">>, <<"u0198", "u0199">>, <<"u019c", "u026f">>,
      <<"u019d", "u0272">>, <<"u019f", "u0275">>, <<"u01a0", "u01a1">>, <<"u01a2", "u01a3">>,
      <<"u01a4", "u01a5">>, <<"u01a6", "u0280">>, <<"u01a7", "u01a8">>, <<"u01a9", "u0283">>,
      <<"u01ac", "u01ad">>, <<"u01ae", "u0288">>, <<"u01af", "u01b0">>, <<"u01b1", "u028a">>,
      <<"u01b2", "u028b">>, <<"u01b3", "u01b4">>, <<"u01b5", "u01b6">>, <<"u01b7", "u0292">>,
      <<"u01b8", "u01b9">>, <<"u01bc", "u01bd">>, <<"u01c4", "u01c6">>, <<"u01c5", "u01c6">>,
      <<"u01c7", "u01c9">>, <<"u01c8", "u01c9">>, <<"u01ca", "u01cc">>, <<"u01cb", "u01cc">>,
      <<"u01cd", "u01ce">>, <<"u01cf", "u01d0">>, <<"u01d1", "u01d2">>, <<"u01d3", "u01d4">>,
      <<"u01d5", "u01d6">>, <<"u01d7", "u01d8">>, <<"u01d9", "u01da">>, <<"u01db", "u01dc">>,
      <<"u01de", "u01df">>, <<"u01e0", "u01e1">>, <<"u01e2", "u01e3">>, <<"u01e4", "u01e5">>,
      <<"u01e6", "u01e7">>, <<"u01e8", "u01e9">>, <<"u01ea", "u01eb">>, <<"u01ec", "u01ed">>,
      <<"u01ee", "u01ef">>, <<"u01f1", "u01f3">>, <<"u01f2", "u01f3">>, <<"u01f4", "u01f5">>,
      <<"u01f6", "u0195">>, <<"u01f7", "u01bf">>, <<"u01f8", "u01f9">>, <<"u01fa", "u01fb">>,
      <<"u01fc", "u01fd">>, <<"u01fe", "u01ff">>, <<"u0200", "u0201">>, <<"u0202", "u0203">>,
      <<"u0204", "u0205">>, <<"u0206", "u0207">>, <<"u0208", "u0209">>, <<"u020a", "u020b">>,
      <<"u020c", "u020d">>, <<"u020e", "u020f">>, <<"u0210", "u0211">>, <<"u0212", "u0213">>,
      <<"u0214", "u0215">>, <<"u0216", "u0217">>, <<"u0218", "u0219">>, <<"u021a", "u021b">>,
      <<"u021c", "u021d">>, <<"u021e", "u021f">>, <<"u0220", "u019e">>, <<"u0222", "u0223">>,
      <<"u0224", "u0225">>, <<"u0226", "u0227">>, <<"u0228", "u0229">>, <<"u022a", "u022b">>,
      <<"u022c", "u022d">>, <<"u022e", "u022f">>, <<"u0230", "u0231">>, <<"u0232", "u0233">>,
      <<"u023a", "u2c65">>, <<"u023b", "u023c">>, <<"u023d", "u019a">>, <<"u023e", "u2c66">>,
      <<"u0241", "u0242">>, <<"u0243", "u0180">>, <<"u0244", "u0289">>, <<"u0245", "u028c">>,
      <<"u0246", "u0247">>, <<"u0248", "u0249">>, <<"u024a", "u024b">>, <<"u024c", "u024d">>,
      <<"u024e", "u024f">>, <<"u0370", "u0371">>, <<"u0372", "u0373">>, <<"u0376", "u0377">>,
      <<"u037f", "u03f3">>, <<"u0386", "u03ac">>, <<"u0388", "u03ad">>, <<"u0389", "u03ae">>,
      <<"u038a", "u03af">>, <<"u038c", "u03cc">>, <<"u038e", "u03cd">>, <<"u038f", "u03ce">>,
      <<"u0391", "u03b1">>, <<"u0392", "u03b2">>, <<"u0393", "u03b3">>, <<"u0394", "u03b4">>,
      <<"u0395", "u03b5">>, <<"u0396", "u03b6">>, <<"u0397", "u03b7">>, <<"u0398", "u03b8">>,
      <<"u0399", "u03b9">>, <<"u039a", "u03ba">>, <<"u039b", "u03bb">>, <<"u039c", "u03bc">>,
      <<"u039d", "u03bd">>, <<"u039e", "u03be">>, <<"u039f", "u03bf">>, <<"u03a0", "u03c0">>,
      <<"u03a1", "u03c1">>, <<"u03a3", "u03c3">>, <<"u03a4", "u03c4">>, <<"u03a5", "u03c5">>,
      <<"u03a6", "u03c6">>, <<"u03a7", "u03c7">>, <<"u03a8", "u03c8">>, <<"u03a9", "u03c9">>,
      <<"u03aa", "u03ca">>, <<"u03ab", "u03cb">>, <<"u03cf", "u03d7">>, <<"u03d8", "u03d9">>,
      <<"u03da", "u03db">>, <<"u03dc", "u03dd">>, <<"u03de", "u03df">>, <<"u03e0", "u03e1">>,
      <<"u03e2", "u03e3">>, <<"u03e4", "u03e5">>, <<"u03e6", "u03e7">>, <<"u03e8", "u03e9">>,
      <<"u03ea", "u03eb">>, <<"u03ec", "u03ed">>, <<"u03ee", "u03ef">>, <<"u03f4", "u03b8">>,
      <<"u03f7", "u03f8">>, <<"u03f9", "u03f2">>, <<"u03fa", "u03fb">>, <<"u03fd", "u037b">>,
      <<"u03fe", "u037c">>, <<"u03ff", "u037d">>, <<"u0400", "u0450">>, <<"u0401", "u0451">>,
      <<"u0402", "u0452">>, <<"u0403", "u0453">>, <<"u0404", "u0454">>, <<"u0405", "u0455">>,
      <<"u0406", "u0456">>, <<"u0407", "u0457">>, <<"u0408", "u0458">>, <<"u0409", "u0459">>,
      <<"u040a", "u045a">>, <<"u040b", "u045b">>, <<"u040c", "u045c">>, <<"u040d", "u045d">>,
      <<"u040e", "u045e">>, <<"u040f", "u045f">>, <<"u0410", "u0430">>, <<"u0411", "u0431">>,
      <<"u0412", "u0432">>, <<"u0413", "u0433">>, <<"u0414", "u0434">>, <<"u0415", "u0435">>,
      <<"u0416", "u0436">>, <<"u0417", "u0437">>, <<"u0418", "u0438">>, <<"u0419", "u0439">>,
      <<"u041a", "u043a">>, <<"u041b", "u043b">>, <<"u041c", "u043c">>, <<"u041d", "u043d">>,
      <<"u041e", "u043e">>, <<"u041f", "u043f">>, <<"u0420", "u0440">>, <<"u0421", "u0441">>,
      <<"u0422", "u0442">>, <<"u0423", "u0443">>, <<"u0424", "u0444">>, <<"u0425", "u0445">>,
      <<"u0426", "u0446">>, <<"u0427", "u0447">>, <<"u0428", "u0448">>, <<"u0429", "u0449">>,
      <<"u042a", "u044a">>, <<"u042b", "u044b">>, <<"u042c", "u044c">>, <<"u042d", "u044d">>,
      <<"u042e", "u044e">>, <<"u042f", "u044f">>, <<"u0460", "u0461">>, <<"u0462", "u0463">>,
      <<"u0464", "u0465">>, <<"u0466", "u0467">>, <<"u0468", "u0469">>, <<"u046a", "u046b">>,
      <<"u046c", "u046d">>, <<"u046e", "u046f">>, <<"u0470", "u0471">>, <<"u0472", "u0473">>,
      <<"u0474", "u0475">>, <<"u0476", "u0477">>, <<"u0478", "u0479">>, <<"u047a", "u047b">>,
      <<"u047c", "u047d">>, <<"u047e", "u047f">>, <<"u0480", "u0481">>, <<"u048a", "u048b">>,
      <<"u048c", "u048d">>, <<"u048e", "u048f">>, <<"u0490", "u0491">>, <<"u0492", "u0493">>,
      <<"u0494", "u0495">>, <<"u0496", "u0497">>, <<"u0498", "u0499">>, <<"u049a", "u049b">>,
      <<"u049c", "u049d">>, <<"u049e", "u049f">>, <<"u04a0", "u04a1">>, <<"u04a2", "u04a3">>,
      <<"u04a4", "u04a5">>, <<"u04a6", "u04a7">>, <<"u04a8", "u04a9">>, <<"u04aa", "u04ab">>,
      <<"u04ac", "u04ad">>, <<"u04ae", "u04af">>, <<"u04b0", "u04b1">>, <<"u04b2", "u04b3">>,
      <<"u04b4", "u04b5">>, <<"u04b6", "u04b7">>, <<"u04b8", "u04b9">>, <<"u04ba", "u04bb">>,
      <<"u04bc", "u04bd">>, <<"u04be", "u04bf">>, <<"u04c0", "u04cf">>, <<"u04c1", "u04c2">>,
      <<"u04c3", "u04c4">>, <<"u04c5", "u04c6">>, <<"u04c7", "u04c8">>, <<"u04c9", "u04ca">>,
      <<"u04cb", "u04cc">>, <<"u04cd", "u04ce">>, <<"u04d0", "u04d1">>, <<"u04d2", "u04d3">>,
      <<"u04d4", "u04d5">>, <<"u04d6", "u04d7">>, <<"u04d8", "u04d9">>, <<"u04da", "u04db">>,
      <<"u04dc", "u04dd">>, <<"u04de", "u04df">>, <<"u04e0", "u04e1">>, <<"u04e2", "u04e3">>,
      <<"u04e4", "u04e5">>, <<"u04e6", "u04e7">>, <<"u04e8", "u04e9">>, <<"u04ea", "u04eb">>,
      <<"u04ec", "u04ed">>, <<"u04ee", "u04ef">>, <<"u04f0", "u04f1">>, <<"u04f2", "u04f3">>,
      <<"u04f4", "u04f5">>, <<"u04f6", "u04f7">>, <<"u04f8", "u04f9">>, <<"u04fa", "u04fb">>,
      <<"u04fc", "u04fd">>, <<"u04fe", "u04ff">>, <<"u0500", "u0501">>, <<"u0502", "u0503">>,
      <<"u0504", "u0505">>, <<"u0506", "u0507">>, <<"u0508", "u0509">>, <<"u050a", "u050b">>,
      <<"u050c", "u050d">>, <<"u050e", "u050f">>, <<"u0510", "u0511">>, <<"u0512", "u0513">>,
      <<"u0514", "u0515">>, <<"u0516", "u0517">>, <<"u0518", "u0519">>, <<"u051a", "u051b">>,
      <<"u051c", "u051d">>, <<"u051e", "u051f">>, <<"u0520", "u0521">>, <<"u0522", "u0523">>,
      <<"u0524", "u0525">>, <<"u0526", "u0527">>, <<"u0528", "u0529">>, <<"u052a", "u052b">>,
      <<"u052c", "u052d">>, <<"u052e", "u052f">>, <<"u0531", "u0561">>, <<"u0532", "u0562">>,
      <<"u0533", "u0563">>, <<"u0534", "u0564">>, <<"u0535", "u0565">>, <<"u0536", "u0566">>,
      <<"u0537", "u0567">>, <<"u0538", "u0568">>, <<"u0539", "u0569">>, <<"u053a", "u056a">>,
      <<"u053b", "u056b">>, <<"u053c", "u056c">>, <<"u053d", "u056d">>, <<"u053e", "u056e">>,
      <<"u053f", "u056f">>, <<"u0540", "u0570">>, <<"u0541", "u0571">>, <<"u0542", "u0572">>,
      <<"u0543", "u0573">>, <<"u0544", "u0574">>, <<"u0545", "u0575">>, <<"u0546", "u0576">>,
      <<"u0547", "u0577">>, <<"u0548", "u0578">>, <<"u0549", "u0579">>, <<"u054a", "u057a">>,
      <<"u054b", "u057b">>, <<"u054c", "u057c">>, <<"u054d", "u057d">>, <<"u054e", "u057e">>,
      <<"u054f", "u057f">>, <<"u0550", "u0580">>, <<"u0551", "u0581">>, <<"u0552", "u0582">>,
      <<"u0553", "u0583">>, <<"u0554", "u0584">>, <<"u0555", "u0585">>, <<"u0556", "u0586">>,
      <<"u10a0", "u2d00">>, <<"u10a1", "u2d01">>, <<"u10a2", "u2d02">>, <<"u10a3", "u2d03">>,
      <<"u10a4", "u2d04">>, <<"u10a5", "u2d05">>, <<"u10a6", "u2d06">>, <<"u10a7", "u2d07">>,
      <<"u10a8", "u2d08">>, <<"u10a9", "u2d09">>, <<"u10aa", "u2d0a">>, <<"u10ab", "u2d0b">>,
      <<"u10ac", "u2d0c">>, <<"u10ad", "u2d0d">>, <<"u10ae", "u2d0e">>, <<"u10af", "u2d0f">>,
      <<"u10b0", "u2d10">>, <<"u10b1", "u2d11">>, <<"u10b2", "u2d12">>, <<"u10b3", "u2d13">>,
      <<"u10b4", "u2d14">>, <<"u10b5", "u2d15">>, <<"u10b6", "u2d16">>, <<"u10b7", "u2d17">>,
      <<"u10b8", "u2d18">>, <<"u10b9", "u2d19">>, <<"u10ba", "u2d1a">>, <<"u10bb", "u2d1b">>,
      <<"u10bc", "u2d1c">>, <<"u10bd", "u2d1d">>, <<"u10be", "u2d1e">>, <<"u10bf", "u2d1f">>,
      <<"u10c0", "u2d20">>, <<"u10c1", "u2d21">>, <<"u10c2", "u2d22">>, <<"u10c3", "u2d23">>,
      <<"u10c4", "u2d24">>, <<"u10c5", "u2d25">>, <<"u10c7", "u2d27">>, <<"u10cd", "u2d2d">>,
      <<"u13a0", "uab70">>, <<"u13a1", "uab71">>, <<"u13a2", "uab72">>, <<"u13a3", "uab73">>,
      <<"u13a4", "uab74">>, <<"u13a5", "uab75">>, <<"u13a6", "uab76">>, <<"u13a7", "uab77">>,
      <<"u13a8", "uab78">>, <<"u13a9", "uab79">>, <<"u13aa", "uab7a">>, <<"u13ab", "uab7b">>,
      <<"u13ac", "uab7c">>, <<"u13ad", "uab7d">>, <<"u13ae", "uab7e">>, <<"u13af", "uab7f">>,
      <<"u13b0", "uab80">>, <<"u13b1", "uab81">>, <<"u13b2", "uab82">>, <<"u13b3", "uab83">>,
      <<"u13b4", "uab84">>, <<"u13b5", "uab85">>, <<"u13b6", "uab86">>, <<"u13b7", "uab87">>,
      <<"u13b8", "uab88">>, <<"u13b9", "uab89">>, <<"u13ba", "uab8a">>, <<"u13bb", "uab8b">>,
      <<"u13bc", "uab8c">>, <<"u13bd", "uab8d">>, <<"u13be", "uab8e">>, <<"u13bf", "uab8f">>,
      <<"u13c0", "uab90">>, <<"u13c1", "uab91">>, <<"u13c2", "uab92">>, <<"u13c3", "uab93">>,
      <<"u13c4", "uab94">>, <<"u13c5", "uab95">>, <<"u13c6", "uab96">>, <<"u13c7", "uab97">>,
      <<"u13c8", "uab98">>, <<"u13c9", "uab99">>, <<"u13ca", "uab9a">>, <<"u13cb", "uab9b">>,
      <<"u13cc", "uab9c">>, <<"u13cd", "uab9d">>, <<"u13ce", "uab9e">>, <<"u13cf", "uab9f">>,
      <<"u13d0", "uaba0">>, <<"u13d1", "uaba1">>, <<"u13d2", "uaba2">>, <<"u13d3", "uaba3">>,
      <<"u13d4", "uaba4">>, <<"u13d5", "uaba5">>, <<"u13d6", "uaba6">>, <<"u13d7", "uaba7">>,
      <<"u13d8", "uaba8">>, <<"u13d9", "uaba9">>, <<"u13da", "uabaa">>, <<"u13db", "uabab">>,
      <<"u13dc", "uabac">>, <<"u13dd", "uabad">>, <<"u13de", "uabae">>, <<"u13df", "uabaf">>,
      <<"u13e0", "uabb0">>, <<"u13e1", "uabb1">>, <<"u13e2", "uabb2">>, <<"u13e3", "uabb3">>,
      <<"u13e4", "uabb4">>, <<"u13e5", "uabb5">>, <<"u13e6", "uabb6">>, <<"u13e7", "uabb7">>,
      <<"u13e8", "uabb8">>, <<"u13e9", "uabb9">>, <<"u13ea", "uabba">>, <<"u13eb", "uabbb">>,
      <<"u13ec", "uabbc">>, <<"u13ed", "uabbd">>, <<"u13ee", "uabbe">>, <<"u13ef", "uabbf">>,
      <<"u13f0", "u13f8">>, <<"u13f1", "u13f9">>, <<"u13f2", "u13fa">>, <<"u13f3", "u13fb">>,
      <<"u13f4", "u13fc">>, <<"u13f5", "u13fd">>, <<"u1c90", "u10d0">>, <<"u1c91", "u10d1">>,
      <<"u1c92", "u10d2">>, <<"u1c93", "u10d3">>, <<"u1c94", "u10d4">>, <<"u1c95", "u10d5">>,
      <<"u1c96", "u10d6">>, <<"u1c97", "u10d7">>, <<"u1c98", "u10d8">>, <<"u1c99", "u10d9">>,
      <<"u1c9a", "u10da">>, <<"u1c9b", "u10db">>, <<"u1c9c", "u10dc">>, <<"u1c9d", "u10dd">>,
      <<"u1c9e", "u10de">>, <<"u1c9f", "u10df">>, <<"u1ca0", "u10e0">>, <<"u1ca1", "u10e1">>,
      <<"u1ca2", "u10e2">>, <<"u1ca3", "u10e3">>, <<"u1ca4", "u10e4">>, <<"u1ca5", "u10e5">>,
      <<"u1ca6", "u10e6">>, <<"u1ca7", "u10e7">>, <<"u1ca8", "u10e8">>, <<"u1ca9", "u10e9">>,
      <<"u1caa", "u10ea">>, <<"u1cab", "u10eb">>, <<"u1cac", "u10ec">>, <<"u1cad", "u10ed">>,
      <<"u1cae", "u10ee">>, <<"u1caf", "u10ef">>, <<"u1cb0", "u10f0">>, <<"u1cb1", "u10f1">>,
      <<"u1cb2", "u10f2">>, <<"u1cb3", "u10f3">>, <<"u1cb4", "u10f4">>, <<"u1cb5", "u10f5">>,
      <<"u1cb6", "u10f6">>, <<"u1cb7", "u10f7">>, <<"u1cb8", "u10f8">>, <<"u1cb9", "u10f9">>,
      <<"u1cba", "u10fa">>, <<"u1cbd", "u10fd">>, <<"u1cbe", "u10fe">>, <<"u1cbf", "u10ff">>,
      <<"u1e00", "u1e01">>, <<"u1e02", "u1e03">>, <<"u1e04", "u1e05">>, <<"u1e06", "u1e07">>,
      <<"u1e08", "u1e09">>, <<"u1e0a", "u1e0b">>, <<"u1e0c", "u1e0d">>, <<"u1e0e", "u1e0f">>,
      <<"u1e10", "u1e11">>, <<"u1e12", "u1e13">>, <<"u1e14", "u1e15">>, <<"u1e16", "u1e17">>,
      <<"u1e18", "u1e19">>, <<"u1e1a", "u1e1b">>, <<"u1e1c", "u1e1d">>, <<"u1e1e", "u1e1f">>,
      <<"u1e20", "u1e21">>, <<"u1e22", "u1e23">>, <<"u1e24", "u1e25">>, <<"u1e26", "u1e27">>,
      <<"u1e28", "u1e29">>, <<"u1e2a", "u1e2b">>, <<"u1e2c", "u1e2d">>, <<"u1e2e", "u1e2f">>,
      <<"u1e30", "u1e31">>, <<"u1e32", "u1e33">>, <<"u1e34", "u1e35">>, <<"u1e36", "u1e37">>,
      <<"u1e38", "u1e39">>, <<"u1e3a", "u1e3b">>, <<"u1e3c", "u1e3d">>, <<"u1e3e", "u1e3f">>,
      <<"u1e40", "u1e41">>, <<"u1e42", "u1e43">>, <<"u1e44", "u1e45">>, <<"u1e46", "u1e47">>,
      <<"u1e48", "u1e49">>, <<"u1e4a", "u1e4b">>, <<"u1e4c", "u1e4d">>, <<"u1e4e", "u1e4f">>,
      <<"u1e50", "u1e51">>, <<"u1e52", "u1e53">>, <<"u1e54", "u1e55">>, <<"u1e56", "u1e57">>,
      <<"u1e58", "u1e59">>, <<"u1e5a", "u1e5b">>, <<"u1e5c", "u1e5d">>, <<"u1e5e", "u1e5f">>,
      <<"u1e60", "u1e61">>, <<"u1e62", "u1e63">>, <<"u1e64", "u1e65">>, <<"u1e66", "u1e67">>,
      <<"u1e68", "u1e69">>, <<"u1e6a", "u1e6b">>, <<"u1e6c", "u1e6d">>, <<"u1e6e", "u1e6f">>,
      <<"u1e70", "u1e71">>, <<"u1e72", "u1e73">>, <<"u1e74", "u1e75">>, <<"u1e76", "u1e77">>,
      <<"u1e78", "u1e79">>, <<"u1e7a", "u1e7b">>, <<"u1e7c", "u1e7d">>, <<"u1e7e", "u1e7f">>,
      <<"u1e80", "u1e81">>, <<"u1e82", "u1e83">>, <<"u1e84", "u1e85">>, <<"u1e86", "u1e87">>,
      <<"u1e88", "u1e89">>, <<"u1e8a", "u1e8b">>, <<"u1e8c", "u1e8d">>, <<"u1e8e", "u1e8f">>,
      <<"u1e90", "u1e91">>, <<"u1e92", "u1e93">>, <<"u1e94", "u1e95">>, <<"u1e9e", "u00df">>,
      <<"u1ea0", "u1ea1">>, <<"u1ea2", "u1ea3">>, <<"u1ea4", "u1ea5">>, <<"u1ea6", "u1ea7">>,
      <<"u1ea8", "u1ea9">>, <<"u1eaa", "u1eab">>, <<"u1eac", "u1ead">>, <<"u1eae", "u1eaf">>,
      <<"u1eb0", "u1eb1">>, <<"u1eb2", "u1eb3">>, <<"u1eb4", "u1eb5">>, <<"u1eb6", "u1eb7">>,
      <<"u1eb8", "u1eb9">>, <<"u1eba", "u1ebb">>, <<"u1ebc", "u1ebd">>, <<"u1ebe", "u1ebf">>,
      <<"u1ec0", "u1ec1">>, <<"u1ec2", "u1ec3">>, <<"u1ec4", "u1ec5">>, <<"u1ec6", "u1ec7">>,
      <<"u1ec8", "u1ec9">>, <<"u1eca", "u1ecb">>, <<"u1ecc", "u1ecd">>, <<"u1ece", "u1ecf">>,
      <<"u1ed0", "u1ed1">>, <<"u1ed2", "u1ed3">>, <<"u1ed4", "u1ed5">>, <<"u1ed6", "u1ed7">>,
      <<"u1ed8", "u1ed9">>, <<"u1eda", "u1edb">>, <<"u1edc", "u1edd">>, <<"u1ede", "u1edf">>,
      <<"u1ee0", "u1ee1">>, <<"u1ee2", "u1ee3">>, <<"u1ee4", "u1ee5">>, <<"u1ee6", "u1ee7">>,
      <<"u1ee8", "u1ee9">>, <<"u1eea", "u1eeb">>, <<"u1eec", "u1eed">>, <<"u1eee", "u1eef">>,
      <<"u1ef0", "u1ef1">>, <<"u1ef2", "u1ef3">>, <<"u1ef4", "u1ef5">>, <<"u1ef6", "u1ef7">>,
      <<"u1ef8", "u1ef9">>, <<"u1efa", "u1efb">>, <<"u1efc", "u1efd">>, <<"u1efe", "u1eff">>,
      <<"u1f08", "u1f00">>, <<"u1f09", "u1f01">>, <<"u1f0a", "u1f02">>, <<"u1f0b", "u1f03">>,
      <<"u1f0c", "u1f04">>, <<"u1f0d", "u1f05">>, <<"u1f0e", "u1f06">>, <<"u1f0f", "u1f07">>,
      <<"u1f18", "u1f10">>, <<"u1f19", "u1f11">>, <<"u1f1a", "u1f12">>, <<"u1f1b", "u1f13">>,
      <<"u1f1c", "u1f14">>, <<"u1f1d", "u1f15">>, <<"u1f28", "u1f20">>, <<"u1f29", "u1f21">>,
      <<"u1f2a", "u1f22">>, <<"u1f2b", "u1f23">>, <<"u1f2c", "u1f24">>, <<"u1f2d", "u1f25">>,
      <<"u1f2e", "u1f26">>, <<"u1f2f", "u1f27">>, <<"u1f38", "u1f30">>, <<"u1f39", "u1f31">>,
      <<"u1f3a", "u1f32">>, <<"u1f3b", "u1f33">>, <<"u1f3c", "u1f34">>, <<"u1f3d", "u1f35">>,
      <<"u1f3e", "u1f36">>, <<"u1f3f", "u1f37">>, <<"u1f48", "u1f40">>, <<"u1f49", "u1f41">>,
      <<"u1f4a", "u1f42">>, <<"u1f4b", "u1f43">>, <<"u1f4c", "u1f44">>, <<"u1f4d", "u1f45">>,
      <<"u1f59", "u1f51">>, <<"u1f5b", "u1f53">>, <<"u1f5d", "u1f55">>, <<"u1f5f", "u1f57">>,
      <<"u1f68", "u1f60">>, <<"u1f69", "u1f61">>, <<"u1f6a", "u1f62">>, <<"u1f6b", "u1f63">>,
      <<"u1f6c", "u1f64">>, <<"u1f6d", "u1f65">>, <<"u1f6e", "u1f66">>, <<"u1f6f", "u1f67">>,
      <<"u1f88", "u1f80">>, <<"u1f89", "u1f81">>, <<"u1f8a", "u1f82">>, <<"u1f8b", "u1f83">>,
      <<"u1f8c", "u1f84">>, <<"u1f8d", "u1f85">>, <<"u1f8e", "u1f86">>, <<"u1f8f", "u1f87">>,
      <<"u1f98", "u1f90">>, <<"u1f99", "u1f91">>, <<"u1f9a", "u1f92">>, <<"u1f9b", "u1f93">>,
      <<"u1f9c", "u1f94">>, <<"u1f9d", "u1f95">>, <<"u1f9e", "u1f96">>, <<"u1f9f", "u1f97">>,
      <<"u1fa8", "u1fa0">>, <<"u1fa9", "u1fa1">>, <<"u1faa", "u1fa2">>, <<"u1fab", "u1fa3">>,
      <<"u1fac", "u1fa4">>, <<"u1fad", "u1fa5">>, <<"u1fae", "u1fa6">>, <<"u1faf", "u1fa7">>,
      <<"u1fb8", "u1fb0">>, <<"u1fb9", "u1fb1">>, <<"u1fba", "u1f70">>, <<"u1fbb", "u1f71">>,
      <<"u1fbc", "u1fb3">>, <<"u1fc8", "u1f72">>, <<"u1fc9", "u1f73">>, <<"u1fca", "u1f74">>,
      <<"u1fcb", "u1f75">>, <<"u1fcc", "u1fc3">>, <<"u1fd8", "u1fd0">>, <<"u1fd9", "u1fd1">>,
      <<"u1fda", "u1f76">>, <<"u1fdb", "u1f77">>, <<"u1fe8", "u1fe0">>, <<"u1fe9", "u1fe1">>,
      <<"u1fea", "u1f7a">>, <<"u1feb", "u1f7b">>, <<"u1fec", "u1fe5">>, <<"u1ff8", "u1f78">>,
      <<"u1ff9", "u1f79">>, <<"u1ffa", "u1f7c">>, <<"u1ffb", "u1f7d">>, <<"u1ffc", "u1ff3">>,
      <<"u2126", "u03c9">>, <<"u212a", "k">>, <<"u212b", "u00e5">>, <<"u2132", "u214e">>,
      <<"u2160", "u2170">>, <<"u2161", "u2171">>, <<"u2162", "u2172">>, <<"u2163", "u2173">>,
      <<"u2164", "u2174">>, <<"u2165", "u2175">>, <<"u2166", "u2176">>, <<"u2167", "u2177">>,
      <<"u2168", "u2178">>, <<"u2169", "u2179">>, <<"u216a", "u217a">>, <<"u216b", "u217b">>,
      <<"u216c", "u217c">>, <<"u216d", "u217d">>, <<"u216e", "u217e">>, <<"u216f", "u217f">>,
      <<"u2183", "u2184">>, <<"u24b6", "u24d0">>, <<"u24b7", "u24d1">>, <<"u24b8", "u24d2">>,
      <<"u24b9", "u24d3">>, <<"u24ba", "u24d4">>, <<"u24bb", "u24d5">>, <<"u24bc", "u24d6">>,
      <<"u24bd", "u24d7">>, <<"u24be", "u24d8">>, <<"u24bf", "u24d9">>, <<"u24c0", "u24da">>,
      <<"u24c1", "u24db">>, <<"u24c2", "u24dc">>, <<"u24c3", "u24dd">>, <<"u24c4", "u24de">>,
      <<"u24c5", "u24df">>, <<"u24c6", "u24e0">>, <<"u24c7", "u24e1">>, <<"u24c8", "u24e2">>,
      <<"u24c9", "u24e3">>, <<"u24ca", "u24e4">>, <<"u24cb", "u24e5">>, <<"u24cc", "u24e6">>,
      <<"u24cd", "u24e7">>, <<"u24ce", "u24e8">>, <<"u24cf", "u24e9">>, <<"u2c00", "u2c30">>,
      <<"u2c01", "u2c31">>, <<"u2c02", "u2c32">>, <<"u2c03", "u2c33">>, <<"u2c04", "u2c34">>,
      <<"u2c05", "u2c35">>, <<"u2c06", "u2c36">>, <<"u2c07", "u2c37">>, <<"u2c08", "u2c38">>,
      <<"u2c09", "u2c39">>, <<"u2c0a", "u2c3a">>, <<"u2c0b", "u2c3b">>, <<"u2c0c", "u2c3c">>,
      <<"u2c0d", "u2c3d">>, <<"u2c0e", "u2c3e">>, <<"u2c0f", "u2c3f">>, <<"u2c10", "u2c40">>,
      <<"u2c11", "u2c41">>, <<"u2c12", "u2c42">>, <<"u2c13", "u2c43">>, <<"u2c14", "u2c44">>,
      <<"u2c15", "u2c45">>, <<"u2c16", "u2c46">>, <<"u2c17", "u2c47">>, <<"u2c18", "u2c48">>,
      <<"u2c19", "u2c49">>, <<"u2c1a", "u2c4a">>, <<"u2c1b", "u2c4b">>, <<"u2c1c", "u2c4c">>,
      <<"u2c1d", "u2c4d">>, <<"u2c1e", "u2c4e">>, <<"u2c1f", "u2c4f">>, <<"u2c20", "u2c50">>,
      <<"u2c21", "u2c51">>, <<"u2c22", "u2c52">>, <<"u2c23", "u2c53">>, <<"u2c24", "u2c54">>,
      <<"u2c25", "u2c55">>, <<"u2c26", "u2c56">>, <<"u2c27", "u2c57">>, <<"u2c28", "u2c58">>,
      <<"u2c29", "u2c59">>, <<"u2c2a", "u2c5a">>, <<"u2c2b", "u2c5b">>, <<"u2c2c", "u2c5c">>,
      <<"u2c2d", "u2c5d">>, <<"u2c2e", "u2c5e">>, <<"u2c2f", "u2c5f">>, <<"u2c60", "u2c61">>,
      <<"u2c62", "u026b">>, <<"u2c63", "u1d7d">>, <<"u2c64", "u027d">>, <<"u2c67", "u2c68">>,
      <<"u2c69", "u2c6a">>, <<"u2c6b", "u2c6c">>, <<"u2c6d", "u0251">>, <<"u2c6e", "u0271">>,
      <<"u2c6f", "u0250">>, <<"u2c70", "u0252">>, <<"u2c72", "u2c73">>, <<"u2c75", "u2c76">>,
      <<"u2c7e", "u023f">>, <<"u2c7f", "u0240">>, <<"u2c80", "u2c81">>, <<"u2c82", "u2c83">>,
      <<"u2c84", "u2c85">>, <<"u2c86", "u2c87">>, <<"u2c88", "u2c89">>, <<"u2c8a", "u2c8b">>,
      <<"u2c8c", "u2c8d">>, <<"u2c8e", "u2c8f">>, <<"u2c90", "u2c91">>, <<"u2c92", "u2c93">>,
      <<"u2c94", "u2c95">>, <<"u2c96", "u2c97">>, <<"u2c98", "u2c99">>, <<"u2c9a", "u2c9b">>,
      <<"u2c9c", "u2c9d">>, <<"u2c9e", "u2c9f">>, <<"u2ca0", "u2ca1">>, <<"u2ca2", "u2ca3">>,
      <<"u2ca4", "u2ca5">>, <<"u2ca6", "u2ca7">>, <<"u2ca8", "u2ca9">>, <<"u2caa", "u2cab">>,
      <<"u2cac", "u2cad">>, <<"u2cae", "u2caf">>, <<"u2cb0", "u2cb1">>, <<"u2cb2", "u2cb3">>,
      <<"u2cb4", "u2cb5">>, <<"u2cb6", "u2cb7">>, <<"u2cb8", "u2cb9">>, <<"u2cba", "u2cbb">>,
      <<"u2cbc", "u2cbd">>, <<"u2cbe", "u2cbf">>, <<"u2cc0", "u2cc1">>, <<"u2cc2", "u2cc3">>,
      <<"u2cc4", "u2cc5">>, <<"u2cc6", "u2cc7">>, <<"u2cc8", "u2cc9">>, <<"u2cca", "u2ccb">>,
      <<"u2ccc", "u2ccd">>, <<"u2cce", "u2ccf">>, <<"u2cd0", "u2cd1">>, <<"u2cd2", "u2cd3">>,
      <<"u2cd4", "u2cd5">>, <<"u2cd6", "u2cd7">>, <<"u2cd8", "u2cd9">>, <<"u2cda", "u2cdb">>,
      <<"u2cdc", "u2cdd">>, <<"u2cde", "u2cdf">>, <<"u2ce0", "u2ce1">>, <<"u2ce2", "u2ce3">>,
      <<"u2ceb", "u2cec">>, <<"u2ced", "u2cee">>, <<"u2cf2", "u2cf3">>, <<"ua640", "ua641">>,
      <<"ua642", "ua643">>, <<"ua644", "ua645">>, <<"ua646", "ua647">>, <<"ua648", "ua649">>,
      <<"ua64a", "ua64b">>, <<"ua64c", "ua64d">>, <<"ua64e", "ua64f">>, <<"ua650", "ua651">>,
      <<"ua652", "ua653">>, <<"ua654", "ua655">>, <<"ua656", "ua657">>, <<"ua658", "ua659">>,
      <<"ua65a", "ua65b">>, <<"ua65c", "ua65d">>, <<"ua65e", "ua65f">>, <<"ua660", "ua661">>,
      <<"ua662", "ua663">>, <<"ua664", "ua665">>, <<"ua666", "ua667">>, <<"ua668", "ua669">>,
      <<"ua66a", "ua66b">>, <<"ua66c", "ua66d">>, <<"ua680", "ua681">>, <<"ua682", "ua683">>,
      <<"ua684", "ua685">>, <<"ua686", "ua687">>, <<"ua688", "ua689">>, <<"ua68a", "ua68b">>,
      <<"ua68c", "ua68d">>, <<"ua68e", "ua68f">>, <<"ua690", "ua691">>, <<"ua692", "ua693">>,
      <<"ua694", "ua695">>, <<"ua696", "ua697">>, <<"ua698", "ua699">>, <<"ua69a", "ua69b">>,
      <<"ua722", "ua723">>, <<"ua724", "ua725">>, <<"ua726", "ua727">>, <<"ua728", "ua729">>,
      <<"ua72a", "ua72b">>, <<"ua72c", "ua72d">>, <<"ua72e", "ua72f">>, <<"ua732", "ua733">>,
      <<"ua734", "ua735">>, <<"ua736", "ua737">>, <<"ua738", "ua739">>, <<"ua73a", "ua73b">>,
      <<"ua73c", "ua73d">>, <<"ua73e", "ua73f">>, <<"ua740", "ua741">>, <<"ua742", "ua743">>,
      <<"ua744", "ua745">>, <<"ua746", "ua747">>, <<"ua748", "ua749">>, <<"ua74a", "ua74b">>,
      <<"ua74c", "ua74d">>, <<"ua74e", "ua74f">>, <<"ua750", "ua751">>, <<"ua752", "ua753">>,
      <<"ua754", "ua755">>, <<"ua756", "ua757">>, <<"ua758", "ua759">>, <<"ua75a", "ua75b">>,
      <<"ua75c", "ua75d">>, <<"ua75e", "ua75f">>, <<"ua760", "ua761">>, <<"ua762", "ua763">>,
      <<"ua764", "ua765">>, <<"ua766", "ua767">>, <<"ua768", "ua769">>, <<"ua76a", "ua76b">>,
      <<"ua76c", "ua76d">>, <<"ua76e", "ua76f">>, <<"ua779", "ua77a">>, <<"ua77b", "ua77c">>,
      <<"ua77d", "u1d79">>, <<"ua77e", "ua77f">>, <<"ua780", "ua781">>, <<"ua782", "ua783">>,
      <<"ua784", "ua785">>, <<"ua786", "ua787">>, <<"ua78b", "ua78c">>, <<"ua78d", "u0265">>,
      <<"ua790", "ua791">>, <<"ua792", "ua793">>, <<"ua796", "ua797">>, <<"ua798", "ua799">>,
      <<"ua79a", "ua79b">>, <<"ua79c", "ua79d">>, <<"ua79e", "ua79f">>, <<"ua7a0", "ua7a1">>,
      <<"ua7a2", "ua7a3">>, <<"ua7a4", "ua7a5">>, <<"ua7a6", "ua7a7">>, <<"ua7a8", "ua7a9">>,
      <<"ua7aa", "u0266">>, <<"ua7ab", "u025c">>, <<"ua7ac", "u0261">>, <<"ua7ad", "u026c">>,
      <<"ua7ae", "u026a">>, <<"ua7b0", "u029e">>, <<"ua7b1", "u0287">>, <<"ua7b2", "u029d">>,
      <<"ua7b3", "uab53">>, <<"ua7b4", "ua7b5">>, <<"ua7b6", "ua7b7">>, <<"ua7b8", "ua7b9">>,
      <<"ua7ba", "ua7bb">>, <<"ua7bc", "ua7bd">>, <<"ua7be", "ua7bf">>, <<"ua7c0", "ua7c1">>,
      <<"ua7c2", "ua7c3">>, <<"ua7c4", "ua794">>, <<"ua7c5", "u0282">>, <<"ua7c6", "u1d8e">>,
      <<"ua7c7", "ua7c8">>, <<"ua7c9", "ua7ca">>, <<"ua7d0", "ua7d1">>, <<"ua7d6", "ua7d7">>,
      <<"ua7d8", "ua7d9">>, <<"ua7f5", "ua7f6">>, <<"uff21", "uff41">>, <<"uff22", "uff42">>,
      <<"uff23", "uff43">>, <<"uff24", "uff44">>, <<"uff25", "uff45">>, <<"uff26", "uff46">>,
      <<"uff27", "uff47">>, <<"uff28", "uff48">>, <<"uff29", "uff49">>, <<"uff2a", "uff4a">>,
      <<"uff2b", "uff4b">>, <<"uff2c", "uff4c">>, <<"uff2d", "uff4d">>, <<"uff2e", "uff4e">>,
      <<"uff2f", "uff4f">>, <<"uff30", "uff50">>, <<"uff31", "uff51">>, <<"uff32", "uff52">>,
      <<"uff33", "uff53">>, <<"uff34", "uff54">>, <<"uff35", "uff55">>, <<"uff36", "uff56">>,
      <<"uff37", "uff57">>, <<"uff38", "uff58">>, <<"uff39", "uff59">>, <<"uff3a", "uff5a">>,
      <<"u10400", "u10428">>, <<"u10401", "u10429">>, <<"u10402", "u1042a">>,
      <<"u10403", "u1042b">>, <<"u10404", "u1042c">>, <<"u10405", "u1042d">>,
      <<"u10406", "u1042e">>, <<"u10407", "u1042f">>, <<"u10408", "u10430">>,
      <<"u10409", "u10431">>, <<"u1040a", "u10432">>, <<"u1040b", "u10433">>,
      <<"u1040c", "u10434">>, <<"u1040d", "u10435">>, <<"u1040e", "u10436">>,
      <<"u1040f", "u10437">>, <<"u10410", "u10438">>, <<"u10411", "u10439">>,
      <<"u10412", "u1043a">>, <<"u10413", "u1043b">>, <<"u10414", "u1043c">>,
      <<"u10415", "u1043d">>, <<"u10416", "u1043e">>, <<"u10417", "u1043f">>,
      <<"u10418", "u10440">>, <<"u10419", "u10441">>, <<"u1041a", "u10442">>,
      <<"u1041b", "u10443">>, <<"u1041c", "u10444">>, <<"u1041d", "u10445">>,
      <<"u1041e", "u10446">>, <<"u1041f", "u10447">>, <<"u10420", "u10448">>,
      <<"u10421", "u10449">>, <<"u10422", "u1044a">>, <<"u10423", "u1044b">>,
      <<"u10424", "u1044c">>, <<"u10425", "u1044d">>, <<"u10426", "u1044e">>,
      <<"u10427", "u1044f">>, <<"u104b0", "u104d8">>, <<"u104b1", "u104d9">>,
      <<"u104b2", "u104da">>, <<"u104b3", "u104db">>, <<"u104b4", "u104dc">>,
      <<"u104b5", "u104dd">>, <<"u104b6", "u104de">>, <<"u104b7", "u104df">>,
      <<"u104b8", "u104e0">>, <<"u104b9", "u104e1">>, <<"u104ba", "u104e2">>,
      <<"u104bb", "u104e3">>, <<"u104bc", "u104e4">>, <<"u104bd", "u104e5">>,
      <<"u104be", "u104e6">>, <<"u104bf", "u104e7">>, <<"u104c0", "u104e8">>,
      <<"u104c1", "u104e9">>, <<"u104c2", "u104ea">>, <<"u104c3", "u104eb">>,
      <<"u104c4", "u104ec">>, <<"u104c5", "u104ed">>, <<"u104c6", "u104ee">>,
      <<"u104c7", "u104ef">>, <<"u104c8", "u104f0">>, <<"u104c9", "u104f1">>,
      <<"u104ca", "u104f2">>, <<"u104cb", "u104f3">>, <<"u104cc", "u104f4">>,
      <<"u104cd", "u104f5">>, <<"u104ce", "u104f6">>, <<"u104cf", "u104f7">>,
      <<"u104d0", "u104f8">>, <<"u104d1", "u104f9">>, <<"u104d2", "u104fa">>,
      <<"u104d3", "u104fb">>, <<"u10570", "u10597">>, <<"u10571", "u10598">>,
      <<"u10572", "u10599">>, <<"u10573", "u1059a">>, <<"u10574", "u1059b">>,
      <<"u10575", "u1059c">>, <<"u10576", "u1059d">>, <<"u10577", "u1059e">>,
      <<"u10578", "u1059f">>, <<"u10579", "u105a0">>, <<"u1057a", "u105a1">>,
      <<"u1057c", "u105a3">>, <<"u1057d", "u105a4">>, <<"u1057e", "u105a5">>,
      <<"u1057f", "u105a6">>, <<"u10580", "u105a7">>, <<"u10581", "u105a8">>,
      <<"u10582", "u105a9">>, <<"u10583", "u105aa">>, <<"u10584", "u105ab">>,
      <<"u10585", "u105ac">>, <<"u10586", "u105ad">>, <<"u10587", "u105ae">>,
      <<"u10588", "u105af">>, <<"u10589", "u105b0">>, <<"u1058a", "u105b1">>,
      <<"u1058c", "u105b3">>, <<"u1058d", "u105b4">>, <<"u1058e", "u105b5">>,
      <<"u1058f", "u105b6">>, <<"u10590", "u105b7">>, <<"u10591", "u105b8">>,
      <<"u10592", "u105b9">>, <<"u10594", "u105bb">>, <<"u10595", "u105bc">>,
      <<"u10c80", "u10cc0">>, <<"u10c81", "u10cc1">>, <<"u10c82", "u10cc2">>,
      <<"u10c83", "u10cc3">>, <<"u10c84", "u10cc4">>, <<"u10c85", "u10cc5">>,
      <<"u10c86", "u10cc6">>, <<"u10c87", "u10cc7">>, <<"u10c88", "u10cc8">>,
      <<"u10c89", "u10cc9">>, <<"u10c8a", "u10cca">>, <<"u10c8b", "u10ccb">>,
      <<"u10c8c", "u10ccc">>, <<"u10c8d", "u10ccd">>, <<"u10c8e", "u10cce">>,
      <<"u10c8f", "u10ccf">>, <<"u10c90", "u10cd0">>, <<"u10c91", "u10cd1">>,
      <<"u10c92", "u10cd2">>, <<"u10c93", "u10cd3">>, <<"u10c94", "u10cd4">>,
      <<"u10c95", "u10cd5">>, <<"u10c96", "u10cd6">>, <<"u10c97", "u10cd7">>,
      <<"u10c98", "u10cd8">>, <<"u10c99", "u10cd9">>, <<"u10c9a", "u10cda">>,
      <<"u10c9b", "u10cdb">>, <<"u10c9c", "u10cdc">>, <<"u10c9d", "u10cdd">>,
      <<"u10c9e", "u10cde">>, <<"u10c9f", "u10cdf">>, <<"u10ca0", "u10ce0">>,
      <<"u10ca1", "u10ce1">>, <<"u10ca2", "u10ce2">>, <<"u10ca3", "u10ce3">>,
      <<"u10ca4", "u10ce4">>, <<"u10ca5", "u10ce5">>, <<"u10ca6", "u10ce6">>,
      <<"u10ca7", "u10ce7">>, <<"u10ca8", "u10ce8">>, <<"u10ca9", "u10ce9">>,
      <<"u10caa", "u10cea">>, <<"u10cab", "u10ceb">>, <<"u10cac", "u10cec">>,
      <<"u10cad", "u10ced">>, <<"u10cae", "u10cee">>, <<"u10caf", "u10cef">>,
      <<"u10cb0", "u10cf0">>, <<"u10cb1", "u10cf1">>, <<"u10cb2", "u10cf2">>,
      <<"u118a0", "u118c0">>, <<"u118a1", "u118c1">>, <<"u118a2", "u118c2">>,
      <<"u118a3", "u118c3">>, <<"u118a4", "u118c4">>, <<"u118a5", "u118c5">>,
      <<"u118a6", "u118c6">>, <<"u118a7", "u118c7">>, <<"u118a8", "u118c8">>,
      <<"u118a9", "u118c9">>, <<"u118aa", "u118ca">>, <<"u118ab", "u118cb">>,
      <<"u118ac", "u118cc">>, <<"u118ad", "u118cd">>, <<"u118ae", "u118ce">>,
      <<"u118af", "u118cf">>, <<"u118b0", "u118d0">>, <<"u118b1", "u118d1">>,
      <<"u118b2", "u118d2">>, <<"u118b3", "u118d3">>, <<"u118b4", "u118d4">>,
      <<"u118b5", "u118d5">>, <<"u118b6", "u118d6">>, <<"u118b7", "u118d7">>,
      <<"u118b8", "u118d8">>, <<"u118b9", "u118d9">>, <<"u118ba", "u118da">>,
      <<"u118bb", "u118db">>, <<"u118bc", "u118dc">>, <<"u118bd", "u118dd">>,
      <<"u118be", "u118de">>, <<"u118bf", "u118df">>, <<"u16e40", "u16e60">>,
      <<"u16e41", "u16e61">>, <<"u16e42", "u16e62">>, <<"u16e43", "u16e63">>,
      <<"u16e44", "u16e64">>, <<"u16e45", "u16e65">>, <<"u16e46", "u16e66">>,
      <<"u16e47", "u16e67">>, <<"u16e48", "u16e68">>, <<"u16e49", "u16e69">>,
      <<"u16e4a", "u16e6a">>, <<"u16e4b", "u16e6b">>, <<"u16e4c", "u16e6c">>,
      <<"u16e4d", "u16e6d">>, <<"u16e4e", "u16e6e">>, <<"u16e4f", "u16e6f">>,
      <<"u16e50", "u16e70">>, <<"u16e51", "u16e71">>, <<"u16e52", "u16e72">>,
      <<"u16e53", "u16e73">>, <<"u16e54", "u16e74">>, <<"u16e55", "u16e75">>,
      <<"u16e56", "u16e76">>, <<"u16e57", "u16e77">>, <<"u16e58", "u16e78">>,
      <<"u16e59", "u16e79">>, <<"u16e5a", "u16e7a">>, <<"u16e5b", "u16e7b">>,
      <<"u16e5c", "u16e7c">>, <<"u16e5d", "u16e7d">>, <<"u16e5e", "u16e7e">>,
      <<"u16e5f", "u16e7f">>, <<"u1e900", "u1e922">>, <<"u1e901", "u1e923">>,
      <<"u1e902", "u1e924">>, <<"u1e903", "u1e925">>, <<"u1e904", "u1e926">>,
      <<"u1e905", "u1e927">>, <<"u1e906", "u1e928">>, <<"u1e907", "u1e929">>,
      <<"u1e908", "u1e92a">>, <<"u1e909", "u1e92b">>, <<"u1e90a", "u1e92c">>,
      <<"u1e90b", "u1e92d">>, <<"u1e90c", "u1e92e">>, <<"u1e90d", "u1e92f">>,
      <<"u1e90e", "u1e930">>, <<"u1e90f", "u1e931">>, <<"u1e910", "u1e932">>,
      <<"u1e911", "u1e933">>, <<"u1e912", "u1e934">>, <<"u1e913", "u1e935">>,
      <<"u1e914", "u1e936">>, <<"u1e915", "u1e937">>, <<"u1e916", "u1e938">>,
      <<"u1e917", "u1e939">>, <<"u1e918", "u1e93a">>, <<"u1e919", "u1e93b">>,
      <<"u1e91a", "u1e93c">>, <<"u1e91b", "u1e93d">>, <<"u1e91c", "u1e93e">>,
      <<"u1e91d", "u1e93f">>, <<"u1e91e", "u1e940">>, <<"u1e91f", "u1e941">>,
      <<"u1e920", "u1e942">>, <<"u1e921", "u1e943">> }

\* the characters of LowerPairs that are lowered
Changed == {p[1] : p \in LowerPairs}

\* str.lower() of the one-character string c; U+0130 becomes two characters
LowerChar(c) ==
    IF c = "u0130" THEN <<"i", "u0307">>
    ELSE IF c \in Changed THEN <<(CHOOSE p \in LowerPairs : p[1] = c)[2]>>
    ELSE <<c>>

\* the cased characters that are not case-ignorable
Cased ==
    { "A", "B", "C", "D", "E", "F", "G", "H", "I", "J", "K", "L", "M", "N", "O", "P", "Q", "R",
      "S", "T", "U", "V", "W", "X", "Y", "Z", "a", "b", "c", "d", "e", "f", "g", "h", "i", "j",
      "k", "l", "m", "n", "o", "p", "q", "r", "s", "t", "u", "v", "w", "x", "y", "z", "u00aa",
      "u00b5", "u00ba", "u00c0", "u00c1", "u00c2", "u00c3", "u00c4", "u00c5", "u00c6", "u00c7",
      "u00c8", "u00c9", "u00ca", "u00cb", "u00cc", "u00cd", "u00ce", "u00cf", "u00d0", "u00d1",
      "u00d2", "u00d3", "u00d4", "u00d5", "u00d6", "u00d8", "u00d9", "u00da", "u00db", "u00dc",
      "u00dd", "u00de", "u00df", "u00e0", "u00e1", "u00e2", "u00e3", "u00e4", "u00e5", "u00e6",
      "u00e7", "u00e8", "u00e9", "u00ea", "u00eb", "u00ec", "u00ed", "u00ee", "u00ef", "u00f0",
      "u00f1", "u00f2", "u00f3", "u00f4", "u00f5", "u00f6", "u00f8", "u00f9", "u00fa", "u00fb",
      "u00fc", "u00fd", "u00fe", "u00ff", "u0100", "u0101", "u0102", "u0103", "u0104", "u0105",
      "u0106", "u0107", "u0108", "u0109", "u010a", "u010b", "u010c", "u010d", "u010e", "u010f",
      "u0110", "u0111", "u0112", "u0113", "u0114", "u0115", "u0116", "u0117", "u0118", "u0119",
      "u011a", "u011b", "u011c", "u011d", "u011e", "u011f", "u0120", "u0121", "u0122", "u0123",
      "u0124", "u0125", "u0126", "u0127", "u0128", "u0129", "u012a", "u012b", "u012c", "u012d",
      "u012e", "u012f", "u0130", "u0131", "u0132", "u0133", "u0134", "u0135", "u0136", "u0137",
      "u0138", "u0139", "u013a", "u013b", "u013c", "u013d", "u013e", "u013f", "u0140", "u0141",
      "u0142", "u0143", "u0144", "u0145", "u0146", "u0147", "u0148", "u0149", "u014a", "u014b",
      "u014c", "u014d", "u014e", "u014f", "u0150", "u0151", "u0152", "u0153", "u0154", "u0155",
      "u0156", "u0157", "u0158", "u0159", "u015a", "u015b", "u015c", "u015d", "u015e", "u015f",
      "u0160", "u0161", "u0162", "u0163", "u0164", "u0165", "u0166", "u0167", "u0168", "u0169",
      "u016a", "u016b", "u016c", "u016d", "u016e", "u016f", "u0170", "u0171", "u0172", "u0173",
      "u0174", "u0175", "u0176", "u0177", "u0178", "u0179", "u017a", "u017b", "u017c", "u017d",
      "u017e", "u017f", "u0180", "u0181", "u0182", "u0183", "u0184", "u0185", "u0186", "u0187",
      "u0188", "u0189", "u018a", "u018b", "u018c", "u018d", "u018e", "u018f", "u0190", "u0191",
      "u0192", "u0193", "u0194", "u0195", "u0196", "u0197", "u0198", "u0199", "u019a", "u019b",
      "u019c", "u019d", "u019e", "u019f", "u01a0", "u01a1", "u01a2", "u01a3", "u01a4", "u01a5",
      "u01a6", "u01a7", "u01a8", "u01a9", "u01aa", "u01ab", "u01ac", "u01ad", "u01ae", "u01af",
      "u01b0", "u01b1", "u01b2", "u01b3", "u01b4", "u01b5", "u01b6", "u01b7", "u01b8", "u01b9",
      "u01ba", "u01bc", "u01bd", "u01be", "u01bf", "u01c4", "u01c5", "u01c6", "u01c7", "u01c8",
      "u01c9", "u01ca", "u01cb", "u01cc", "u01cd", "u01ce", "u01cf", "u01d0", "u01d1", "u01d2",
      "u01d3", "u01d4", "u01d5", "u01d6", "u01d7", "u01d8", "u01d9", "u01da", "u01db", "u01dc",
      "u01dd", "u01de", "u01df", "u01e0", "u01e1", "u01e2", "u01e3", "u01e4", "u01e5", "u01e6",
      "u01e7", "u01e8", "u01e9", "u01ea", "u01eb", "u01ec", "u01ed", "u01ee", "u01ef", "u01f0",
      "u01f1", "u01f2", "u01f3", "u01f4", "u01f5", "u01f6", "u01f7", "u01f8", "u01f9", "u01fa",
      "u01fb", "u01fc", "u01fd", "u01fe", "u01ff", "u0200", "u0201", "u0202", "u0203", "u0204",
      "u0205", "u0206", "u0207", "u0208", "u0209", "u020a", "u020b", "u020c", "u020d", "u020e",
      "u020f", "u0210", "u0211", "u0212", "u0213", "u0214", "u0215", "u0216", "u0217", "u0218",
      "u0219", "u021a", "u021b", "u021c", "u021d", "u021e", "u021f", "u0220", "u0221", "u0222",
      "u0223", "u0224", "u0225", "u0226", "u0227", "u0228", "u0229", "u022a", "u022b", "u022c",
      "u022d", "u022e", "u022f", "u0230", "u0231", "u0232", "u0233", "u0234", "u0235", "u0236",
      "u0237", "u0238", "u0239", "u023a", "u023b", "u023c", "u023d", "u023e", "u023f", "u0240",
      "u0241", "u0242", "u0243", "u0244", "u0245", "u0246", "u0247", "u0248", "u0249", "u024a",
      "u024b", "u024c", "u024d", "u024e", "u024f", "u0250", "u0251", "u0252", "u0253", "u0254",
      "u0255", "u0256", "u0257", "u0258", "u0259", "u025a", "u025b", "u025c", "u025d", "u025e",
      "u025f", "u0260", "u0261", "u0262", "u0263", "u0264", "u0265", "u0266", "u0267", "u0268",
      "u0269", "u026a", "u026b", "u026c", "u026d", "u026e", "u026f", "u0270", "u0271", "u0272",
      "u0273", "u0274", "u0275", "u0276", "u0277", "u0278", "u0279", "u027a", "u027b", "u027c",
      "u027d", "u027e", "u027f", "u0280", "u0281", "u0282", "u0283", "u0284", "u0285", "u0286",
      "u0287", "u0288", "u0289", "u028a", "u028b", "u028c", "u028d", "u028e", "u028f", "u0290",
      "u0291", "u0292", "u0293", "u0295", "u0296", "u0297", "u0298", "u0299", "u029a", "u029b",
      "u029c", "u029d", "u029e", "u029f", "u02a0", "u02a1", "u02a2", "u02a3", "u02a4", "u02a5",
      "u02a6", "u02a7", "u02a8", "u02a9", "u02aa", "u02ab", "u02ac", "u02ad", "u02ae", "u02af",
      "u0370", "u0371", "u0372", "u0373", "u0376", "u0377", "u037b", "u037c", "u037d", "u037f",
      "u0386", "u0388", "u0389", "u038a", "u038c", "u038e", "u038f", "u0390", "u0391", "u0392",
      "u0393", "u0394", "u0395", "u0396", "u0397", "u0398", "u0399", "u039a", "u039b", "u039c",
      "u039d", "u039e", "u039f", "u03a0", "u03a1", "u03a3", "u03a4", "u03a5", "u03a6", "u03a7",
      "u03a8", "u03a9", "u03aa", "u03ab", "u03ac", "u03ad", "u03ae", "u03af", "u03b0", "u03b1",
      "u03b2", "u03b3", "u03b4", "u03b5", "u03b6", "u03b7", "u03b8", "u03b9", "u03ba", "u03bb",
      "u03bc", "u03bd", "u03be", "u03bf", "u03c0", "u03c1", "u03c2", "u03c3", "u03c4", "u03c5",
      "u03c6", "u03c7", "u03c8", "u03c9", "u03ca", "u03cb", "u03cc", "u03cd", "u03ce", "u03cf",
      "u03d0", "u03d1", "u03d2", "u03d3", "u03d4", "u03d5", "u03d6", "u03d7", "u03d8", "u03d9",
      "u03da", "u03db", "u03dc", "u03dd", "u03de", "u03df", "u03e0", "u03e1", "u03e2", "u03e3",
      "u03e4", "u03e5", "u03e6", "u03e7", "u03e8", "u03e9", "u03ea", "u03eb", "u03ec", "u03ed",
      "u03ee", "u03ef", "u03f0", "u03f1", "u03f2", "u03f3", "u03f4", "u03f5", "u03f7", "u03f8",
      "u03f9", "u03fa", "u03fb", "u03fc", "u03fd", "u03fe", "u03ff", "u0400", "u0401", "u0402",
      "u0403", "u0404", "u0405", "u0406", "u0407", "u0408", "u0409", "u040a", "u040b", "u040c",
      "u040d", "u040e", "u040f", "u0410", "u0411", "u0412", "u0413", "u0414", "u0415", "u0416",
      "u0417", "u0418", "u0419", "u041a", "u041b", "u041c", "u041d", "u041e", "u041f", "u0420",
      "u0421", "u0422", "u0423", "u0424", "u0425", "u0426", "u0427", "u0428", "u0429", "u042a",
      "u042b", "u042c", "u042d", "u042e", "u042f", "u0430", "u0431", "u0432", "u0433", "u0434",
      "u0435", "u0436", "u0437", "u0438", "u0439", "u043a", "u043b", "u043c", "u043d", "u043e",
      "u043f", "u0440", "u0441", "u0442", "u0443", "u0444", "u0445", "u0446", "u0447", "u0448",
      "u0449", "u044a", "u044b", "u044c", "u044d", "u044e", "u044f", "u0450", "u0451", "u0452",
      "u0453", "u0454", "u0455", "u0456", "u0457", "u0458", "u0459", "u045a", "u045b", "u045c",
      "u045d", "u045e", "u045f", "u0460", "u0461", "u0462", "u0463", "u0464", "u0465", "u0466",
      "u0467", "u0468", "u0469", "u046a", "u046b", "u046c", "u046d", "u046e", "u046f", "u0470",
      "u0471", "u0472", "u0473", "u0474", "u0475", "u0476", "u0477", "u0478", "u0479", "u047a",
      "u047b", "u047c", "u047d", "u047e", "u047f", "u0480", "u0481", "u048a", "u048b", "u048c",
      "u048d", "u048e", "u048f", "u0490", "u0491", "u0492", "u0493", "u0494", "u0495", "u0496",
      "u0497", "u0498", "u0499", "u049a", "u049b", "u049c", "u049d", "u049e", "u049f", "u04a0",
      "u04a1", "u04a2", "u04a3", "u04a4", "u04a5", "u04a6", "u04a7", "u04a8", "u04a9", "u04aa",
      "u04ab", "u04ac", "u04ad", "u04ae", "u04af", "u04b0", "u04b1", "u04b2", "u04b3", "u04b4",
      "u04b5", "u04b6", "u04b7", "u04b8", "u04b9", "u04ba", "u04bb", "u04bc", "u04bd", "u04be",
      "u04bf", "u04c0", "u04c1", "u04c2", "u04c3", "u04c4", "u04c5", "u04c6", "u04c7", "u04c8",
      "u04c9", "u04ca", "u04cb", "u04cc", "u04cd", "u04ce", "u04cf", "u04d0", "u04d1", "u04d2",
      "u04d3", "u04d4", "u04d5", "u04d6", "u04d7", "u04d8", "u04d9", "u04da", "u04db", "u04dc",
      "u04dd", "u04de", "u04df", "u04e0", "u04e1", "u04e2", "u04e3", "u04e4", "u04e5", "u04e6",
      "u04e7", "u04e8", "u04e9", "u04ea", "u04eb", "u04ec", "u04ed", "u04ee", "u04ef", "u04f0",
      "u04f1", "u04f2", "u04f3", "u04f4", "u04f5", "u04f6", "u04f7", "u04f8", "u04f9", "u04fa",
      "u04fb", "u04fc", "u04fd", "u04fe", "u04ff", "u0500", "u0501", "u0502", "u0503", "u0504",
      "u0505", "u0506", "u0507", "u0508", "u0509", "u050a", "u050b", "u050c", "u050d", "u050e",
      "u050f", "u0510", "u0511", "u0512", "u0513", "u0514", "u0515", "u0516", "u0517", "u0518",
      "u0519", "u051a", "u051b", "u051c", "u051d", "u051e", "u051f", "u0520", "u0521", "u0522",
      "u0523", "u0524", "u0525", "u0526", "u0527", "u0528", "u0529", "u052a", "u052b", "u052c",
      "u052d", "u052e", "u052f", "u0531", "u0532", "u0533", "u0534", "u0535", "u0536", "u0537",
      "u0538", "u0539", "u053a", "u053b", "u053c", "u053d", "u053e", "u053f", "u0540", "u0541",
      "u0542", "u0543", "u0544", "u0545", "u0546", "u0547", "u0548", "u0549", "u054a", "u054b",
      "u054c", "u054d", "u054e", "u054f", "u0550", "u0551", "u0552", "u0553", "u0554", "u0555",
      "u0556", "u0560", "u0561", "u0562", "u0563", "u0564", "u0565", "u0566", "u0567", "u0568",
      "u0569", "u056a", "u056b", "u056c", "u056d", "u056e", "u056f", "u0570", "u0571", "u0572",
      "u0573", "u0574", "u0575", "u0576", "u0577", "u0578", "u0579", "u057a", "u057b", "u057c",
      "u057d", "u057e", "u057f", "u0580", "u0581", "u0582", "u0583", "u0584", "u0585", "u0586",
      "u0587", "u0588", "u10a0", "u10a1", "u10a2", "u10a3", "u10a4", "u10a5", "u10a6", "u10a7",
      "u10a8", "u10a9", "u10aa", "u10ab", "u10ac", "u10ad", "u10ae", "u10af", "u10b0", "u10b1",
      "u10b2", "u10b3", "u10b4", "u10b5", "u10b6", "u10b7", "u10b8", "u10b9", "u10ba", "u10bb",
      "u10bc", "u10bd", "u10be", "u10bf", "u10c0", "u10c1", "u10c2", "u10c3", "u10c4", "u10c5",
      "u10c7", "u10cd", "u10d0", "u10d1", "u10d2", "u10d3", "u10d4", "u10d5", "u10d6", "u10d7",
      "u10d8", "u10d9", "u10da", "u10db", "u10dc", "u10dd", "u10de", "u10df", "u10e0", "u10e1",
      "u10e2", "u10e3", "u10e4", "u10e5", "u10e6", "u10e7", "u10e8", "u10e9", "u10ea", "u10eb",
      "u10ec", "u10ed", "u10ee", "u10ef", "u10f0", "u10f1", "u10f2", "u10f3", "u10f4", "u10f5",
      "u10f6", "u10f7", "u10f8", "u10f9", "u10fa", "u10fd", "u10fe", "u10ff", "u13a0", "u13a1",
      "u13a2", "u13a3", "u13a4", "u13a5", "u13a6", "u13a7", "u13a8", "u13a9", "u13aa", "u13ab",
      "u13ac", "u13ad", "u13ae", "u13af", "u13b0", "u13b1", "u13b2", "u13b3", "u13b4", "u13b5",
      "u13b6", "u13b7", "u13b8", "u13b9", "u13ba", "u13bb", "u13bc", "u13bd", "u13be", "u13bf",
      "u13c0", "u13c1", "u13c2", "u13c3", "u13c4", "u13c5", "u13c6", "u13c7", "u13c8", "u13c9",
      "u13ca", "u13cb", "u13cc", "u13cd", "u13ce", "u13cf", "u13d0", "u13d1", "u13d2", "u13d3",
      "u13d4", "u13d5", "u13d6", "u13d7", "u13d8", "u13d9", "u13da", "u13db", "u13dc", "u13dd",
      "u13de", "u13df", "u13e0", "u13e1", "u13e2", "u13e3", "u13e4", "u13e5", "u13e6", "u13e7",
      "u13e8", "u13e9", "u13ea", "u13eb", "u13ec", "u13ed", "u13ee", "u13ef", "u13f0", "u13f1",
      "u13f2", "u13f3", "u13f4", "u13f5", "u13f8", "u13f9", "u13fa", "u13fb", "u13fc", "u13fd",
      "u1c80", "u1c81", "u1c82", "u1c83", "u1c84", "u1c85", "u1c86", "u1c87", "u1c88", "u1c90",
      "u1c91", "u1c92", "u1c93", "u1c94", "u1c95", "u1c96", "u1c97", "u1c98", "u1c99", "u1c9a",
      "u1c9b", "u1c9c", "u1c9d", "u1c9e", "u1c9f", "u1ca0", "u1ca1", "u1ca2", "u1ca3", "u1ca4",
      "u1ca5", "u1ca6", "u1ca7", "u1ca8", "u1ca9", "u1caa", "u1cab", "u1cac", "u1cad", "u1cae",
      "u1caf", "u1cb0", "u1cb1", "u1cb2", "u1cb3", "u1cb4", "u1cb5", "u1cb6", "u1cb7", "u1cb8",
      "u1cb9", "u1cba", "u1cbd", "u1cbe", "u1cbf", "u1d00", "u1d01", "u1d02", "u1d03", "u1d04",
      "u1d05", "u1d06", "u1d07", "u1d08", "u1d09", "u1d0a", "u1d0b", "u1d0c", "u1d0d", "u1d0e",
      "u1d0f", "u1d10", "u1d11", "u1d12", "u1d13", "u1d14", "u1d15", "u1d16", "u1d17", "u1d18",
      "u1d19", "u1d1a", "u1d1b", "u1d1c", "u1d1d", "u1d1e", "u1d1f", "u1d20", "u1d21", "u1d22",
      "u1d23", "u1d24", "u1d25", "u1d26", "u1d27", "u1d28", "u1d29", "u1d2a", "u1d2b", "u1d6b",
      "u1d6c", "u1d6d", "u1d6e", "u1d6f", "u1d70", "u1d71", "u1d72", "u1d73", "u1d74", "u1d75",
      "u1d76", "u1d77", "u1d79", "u1d7a", "u1d7b", "u1d7c", "u1d7d", "u1d7e", "u1d7f", "u1d80",
      "u1d81", "u1d82", "u1d83", "u1d84", "u1d85", "u1d86", "u1d87", "u1d88", "u1d89", "u1d8a",
      "u1d8b", "u1d8c", "u1d8d", "u1d8e", "u1d8f", "u1d90", "u1d91", "u1d92", "u1d93", "u1d94",
      "u1d95", "u1d96", "u1d97", "u1d98", "u1d99", "u1d9a", "u1e00", "u1e01", "u1e02", "u1e03",
      "u1e04", "u1e05", "u1e06", "u1e07", "u1e08", "u1e09", "u1e0a", "u1e0b", "u1e0c", "u1e0d",
      "u1e0e", "u1e0f", "u1e10", "u1e11", "u1e12", "u1e13", "u1e14", "u1e15", "u1e16", "u1e17",
      "u1e18", "u1e19", "u1e1a", "u1e1b", "u1e1c", "u1e1d", "u1e1e", "u1e1f", "u1e20", "u1e21",
      "u1e22", "u1e23", "u1e24", "u1e25", "u1e26", "u1e27", "u1e28", "u1e29", "u1e2a", "u1e2b",
      "u1e2c", "u1e2d", "u1e2e", "u1e2f", "u1e30", "u1e31", "u1e32", "u1e33", "u1e34", "u1e35",
      "u1e36", "u1e37", "u1e38", "u1e39", "u1e3a", "u1e3b", "u1e3c", "u1e3d", "u1e3e", "u1e3f",
      "u1e40", "u1e41", "u1e42", "u1e43", "u1e44", "u1e45", "u1e46", "u1e47", "u1e48", "u1e49",
      "u1e4a", "u1e4b", "u1e4c", "u1e4d", "u1e4e", "u1e4f", "u1e50", "u1e51", "u1e52", "u1e53",
      "u1e54", "u1e55", "u1e56", "u1e57", "u1e58", "u1e59", "u1e5a", "u1e5b", "u1e5c", "u1e5d",
      "u1e5e", "u1e5f", "u1e60", "u1e61", "u1e62", "u1e63", "u1e64", "u1e65", "u1e66", "u1e67",
      "u1e68", "u1e69", "u1e6a", "u1e6b", "u1e6c", "u1e6d", "u1e6e", "u1e6f", "u1e70", "u1e71",
      "u1e72", "u1e73", "u1e74", "u1e75", "u1e76", "u1e77", "u1e78", "u1e79", "u1e7a", "u1e7b",
      "u1e7c", "u1e7d", "u1e7e", "u1e7f", "u1e80", "u1e81", "u1e82", "u1e83", "u1e84", "u1e85",
      "u1e86", "u1e87", "u1e88", "u1e89", "u1e8a", "u1e8b", "u1e8c", "u1e8d", "u1e8e", "u1e8f",
      "u1e90", "u1e91", "u1e92", "u1e93", "u1e94", "u1e95", "u1e96", "u1e97", "u1e98", "u1e99",
      "u1e9a", "u1e9b", "u1e9c", "u1e9d", "u1e9e", "u1e9f", "u1ea0", "u1ea1", "u1ea2", "u1ea3",
      "u1ea4", "u1ea5", "u1ea6", "u1ea7", "u1ea8", "u1ea9", "u1eaa", "u1eab", "u1eac", "u1ead",
      "u1eae", "u1eaf", "u1eb0", "u1eb1", "u1eb2", "u1eb3", "u1eb4", "u1eb5", "u1eb6", "u1eb7",
      "u1eb8", "u1eb9", "u1eba", "u1ebb", "u1ebc", "u1ebd", "u1ebe", "u1ebf", "u1ec0", "u1ec1",
      "u1ec2", "u1ec3", "u1ec4", "u1ec5", "u1ec6", "u1ec7", "u1ec8", "u1ec9", "u1eca", "u1ecb",
      "u1ecc", "u1ecd", "u1ece", "u1ecf", "u1ed0", "u1ed1", "u1ed2", "u1ed3", "u1ed4", "u1ed5",
      "u1ed6", "u1ed7", "u1ed8", "u1ed9", "u1eda", "u1edb", "u1edc", "u1edd", "u1ede", "u1edf",
      "u1ee0", "u1ee1", "u1ee2", "u1ee3", "u1ee4", "u1ee5", "u1ee6", "u1ee7", "u1ee8", "u1ee9",
      "u1eea", "u1eeb", "u1eec", "u1eed", "u1eee", "u1eef", "u1ef0", "u1ef1", "u1ef2", "u1ef3",
      "u1ef4", "u1ef5", "u1ef6", "u1ef7", "u1ef8", "u1ef9", "u1efa", "u1efb", "u1efc", "u1efd",
      "u1efe", "u1eff", "u1f00", "u1f01", "u1f02", "u1f03", "u1f04", "u1f05", "u1f06", "u1f07",
      "u1f08", "u1f09", "u1f0a", "u1f0b", "u1f0c", "u1f0d", "u1f0e", "u1f0f", "u1f10", "u1f11",
      "u1f12", "u1f13", "u1f14", "u1f15", "u1f18", "u1f19", "u1f1a", "u1f1b", "u1f1c", "u1f1d",
      "u1f20", "u1f21", "u1f22", "u1f23", "u1f24", "u1f25", "u1f26", "u1f27", "u1f28", "u1f29",
      "u1f2a", "u1f2b", "u1f2c", "u1f2d", "u1f2e", "u1f2f", "u1f30", "u1f31", "u1f32", "u1f33",
      "u1f34", "u1f35", "u1f36", "u1f37", "u1f38", "u1f39", "u1f3a", "u1f3b", "u1f3c", "u1f3d",
      "u1f3e", "u1f3f", "u1f40", "u1f41", "u1f42", "u1f43", "u1f44", "u1f45", "u1f48", "u1f49",
      "u1f4a", "u1f4b", "u1f4c", "u1f4d", "u1f50", "u1f51", "u1f52", "u1f53", "u1f54", "u1f55",
      "u1f56", "u1f57", "u1f59", "u1f5b", "u1f5d", "u1f5f", "u1f60", "u1f61", "u1f62", "u1f63",
      "u1f64", "u1f65", "u1f66", "u1f67", "u1f68", "u1f69", "u1f6a", "u1f6b", "u1f6c", "u1f6d",
      "u1f6e", "u1f6f", "u1f70", "u1f71", "u1f72", "u1f73", "u1f74", "u1f75", "u1f76", "u1f77",
      "u1f78", "u1f79", "u1f7a", "u1f7b", "u1f7c", "u1f7d", "u1f80", "u1f81", "u1f82", "u1f83",
      "u1f84", "u1f85", "u1f86", "u1f87", "u1f88", "u1f89", "u1f8a", "u1f8b", "u1f8c", "u1f8d",
      "u1f8e", "u1f8f", "u1f90", "u1f91", "u1f92", "u1f93", "u1f94", "u1f95", "u1f96", "u1f97",
      "u1f98", "u1f99", "u1f9a", "u1f9b", "u1f9c", "u1f9d", "u1f9e", "u1f9f", "u1fa0", "u1fa1",
      "u1fa2", "u1fa3", "u1fa4", "u1fa5", "u1fa6", "u1fa7", "u1fa8", "u1fa9", "u1faa", "u1fab",
      "u1fac", "u1fad", "u1fae", "u1faf", "u1fb0", "u1fb1", "u1fb2", "u1fb3", "u1fb4", "u1fb6",
      "u1fb7", "u1fb8", "u1fb9", "u1fba", "u1fbb", "u1fbc", "u1fbe", "u1fc2", "u1fc3", "u1fc4",
      "u1fc6", "u1fc7", "u1fc8", "u1fc9", "u1fca", "u1fcb", "u1fcc", "u1fd0", "u1fd1", "u1fd2",
      "u1fd3", "u1fd6", "u1fd7", "u1fd8", "u1fd9", "u1fda", "u1fdb", "u1fe0", "u1fe1", "u1fe2",
      "u1fe3", "u1fe4", "u1fe5", "u1fe6", "u1fe7", "u1fe8", "u1fe9", "u1fea", "u1feb", "u1fec",
      "u1ff2", "u1ff3", "u1ff4", "u1ff6", "u1ff7", "u1ff8", "u1ff9", "u1ffa", "u1ffb", "u1ffc",
      "u2102", "u2107", "u210a", "u210b", "u210c", "u210d", "u210e", "u210f", "u2110", "u2111",
      "u2112", "u2113", "u2115", "u2119", "u211a", "u211b", "u211c", "u211d", "u2124", "u2126",
      "u2128", "u212a", "u212b", "u212c", "u212d", "u212f", "u2130", "u2131", "u2132", "u2133",
      "u2134", "u2139", "u213c", "u213d", "u213e", "u213f", "u2145", "u2146", "u2147", "u2148",
      "u2149", "u214e", "u2160", "u2161", "u2162", "u2163", "u2164", "u2165", "u2166", "u2167",
      "u2168", "u2169", "u216a", "u216b", "u216c", "u216d", "u216e", "u216f", "u2170", "u2171",
      "u2172", "u2173", "u2174", "u2175", "u2176", "u2177", "u2178", "u2179", "u217a", "u217b",
      "u217c", "u217d", "u217e", "u217f", "u2183", "u2184", "u24b6", "u24b7", "u24b8", "u24b9",
      "u24ba", "u24bb", "u24bc", "u24bd", "u24be", "u24bf", "u24c0", "u24c1", "u24c2", "u24c3",
      "u24c4", "u24c5", "u24c6", "u24c7", "u24c8", "u24c9", "u24ca", "u24cb", "u24cc", "u24cd",
      "u24ce", "u24cf", "u24d0", "u24d1", "u24d2", "u24d3", "u24d4", "u24d5", "u24d6", "u24d7",
      "u24d8", "u24d9", "u24da", "u24db", "u24dc", "u24dd", "u24de", "u24df", "u24e0", "u24e1",
      "u24e2", "u24e3", "u24e4", "u24e5", "u24e6", "u24e7", "u24e8", "u24e9", "u2c00", "u2c01",
      "u2c02", "u2c03", "u2c04", "u2c05", "u2c06", "u2c07", "u2c08", "u2c09", "u2c0a", "u2c0b",
      "u2c0c", "u2c0d", "u2c0e", "u2c0f", "u2c10", "u2c11", "u2c12", "u2c13", "u2c14", "u2c15",
      "u2c16", "u2c17", "u2c18", "u2c19", "u2c1a", "u2c1b", "u2c1c", "u2c1d", "u2c1e", "u2c1f",
      "u2c20", "u2c21", "u2c22", "u2c23", "u2c24", "u2c25", "u2c26", "u2c27", "u2c28", "u2c29",
      "u2c2a", "u2c2b", "u2c2c", "u2c2d", "u2c2e", "u2c2f", "u2c30", "u2c31", "u2c32", "u2c33",
      "u2c34", "u2c35", "u2c36", "u2c37", "u2c38", "u2c39", "u2c3a", "u2c3b", "u2c3c", "u2c3d",
      "u2c3e", "u2c3f", "u2c40", "u2c41", "u2c42", "u2c43", "u2c44", "u2c45", "u2c46", "u2c47",
      "u2c48", "u2c49", "u2c4a", "u2c4b", "u2c4c", "u2c4d", "u2c4e", "u2c4f", "u2c50", "u2c51",
      "u2c52", "u2c53", "u2c54", "u2c55", "u2c56", "u2c57", "u2c58", "u2c59", "u2c5a", "u2c5b",
      "u2c5c", "u2c5d", "u2c5e", "u2c5f", "u2c60", "u2c61", "u2c62", "u2c63", "u2c64", "u2c65",
      "u2c66", "u2c67", "u2c68", "u2c69", "u2c6a", "u2c6b", "u2c6c", "u2c6d", "u2c6e", "u2c6f",
      "u2c70", "u2c71", "u2c72", "u2c73", "u2c74", "u2c75", "u2c76", "u2c77", "u2c78", "u2c79",
      "u2c7a", "u2c7b", "u2c7e", "u2c7f", "u2c80", "u2c81", "u2c82", "u2c83", "u2c84", "u2c85",
      "u2c86", "u2c87", "u2c88", "u2c89", "u2c8a", "u2c8b", "u2c8c", "u2c8d", "u2c8e", "u2c8f",
      "u2c90", "u2c91", "u2c92", "u2c93", "u2c94", "u2c95", "u2c96", "u2c97", "u2c98", "u2c99",
      "u2c9a", "u2c9b", "u2c9c", "u2c9d", "u2c9e", "u2c9f", "u2ca0", "u2ca1", "u2ca2", "u2ca3",
      "u2ca4", "u2ca5", "u2ca6", "u2ca7", "u2ca8", "u2ca9", "u2caa", "u2cab", "u2cac", "u2cad",
      "u2cae", "u2caf", "u2cb0", "u2cb1", "u2cb2", "u2cb3", "u2cb4", "u2cb5", "u2cb6", "u2cb7",
      "u2cb8", "u2cb9", "u2cba", "u2cbb", "u2cbc", "u2cbd", "u2cbe", "u2cbf", "u2cc0", "u2cc1",
      "u2cc2", "u2cc3", "u2cc4", "u2cc5", "u2cc6", "u2cc7", "u2cc8", "u2cc9", "u2cca", "u2ccb",
      "u2ccc", "u2ccd", "u2cce", "u2ccf", "u2cd0", "u2cd1", "u2cd2", "u2cd3", "u2cd4", "u2cd5",
      "u2cd6", "u2cd7", "u2cd8", "u2cd9", "u2cda", "u2cdb", "u2cdc", "u2cdd", "u2cde", "u2cdf",
      "u2ce0", "u2ce1", "u2ce2", "u2ce3", "u2ce4", "u2ceb", "u2cec", "u2ced", "u2cee", "u2cf2",
      "u2cf3", "u2d00", "u2d01", "u2d02", "u2d03", "u2d04", "u2d05", "u2d06", "u2d07", "u2d08",
      "u2d09", "u2d0a", "u2d0b", "u2d0c", "u2d0d", "u2d0e", "u2d0f", "u2d10", "u2d11", "u2d12",
      "u2d13", "u2d14", "u2d15", "u2d16", "u2d17", "u2d18", "u2d19", "u2d1a", "u2d1b", "u2d1c",
      "u2d1d", "u2d1e", "u2d1f", "u2d20", "u2d21", "u2d22", "u2d23", "u2d24", "u2d25", "u2d27",
      "u2d2d", "ua640", "ua641", "ua642", "ua643", "ua644", "ua645", "ua646", "ua647", "ua648",
      "ua649", "ua64a", "ua64b", "ua64c", "ua64d", "ua64e", "ua64f", "ua650", "ua651", "ua652",
      "ua653", "ua654", "ua655", "ua656", "ua657", "ua658", "ua659", "ua65a", "ua65b", "ua65c",
      "ua65d", "ua65e", "ua65f", "ua660", "ua661", "ua662", "ua663", "ua664", "ua665", "ua666",
      "ua667", "ua668", "ua669", "ua66a", "ua66b", "ua66c", "ua66d", "ua680", "ua681", "ua682",
      "ua683", "ua684", "ua685", "ua686", "ua687", "ua688", "ua689", "ua68a", "ua68b", "ua68c",
      "ua68d", "ua68e", "ua68f", "ua690", "ua691", "ua692", "ua693", "ua694", "ua695", "ua696",
      "ua697", "ua698", "ua699", "ua69a", "ua69b", "ua722", "ua723", "ua724", "ua725", "ua726",
      "ua727", "ua728", "ua729", "ua72a", "ua72b", "ua72c", "ua72d", "ua72e", "ua72f", "ua730",
      "ua731", "ua732", "ua733", "ua734", "ua735", "ua736", "ua737", "ua738", "ua739", "ua73a",
      "ua73b", "ua73c", "ua73d", "ua73e", "ua73f", "ua740", "ua741", "ua742", "ua743", "ua744",
      "ua745", "ua746", "ua747", "ua748", "ua749", "ua74a", "ua74b", "ua74c", "ua74d", "ua74e",
      "ua74f", "ua750", "ua751", "ua752", "ua753", "ua754", "ua755", "ua756", "ua757", "ua758",
      "ua759", "ua75a", "ua75b", "ua75c", "ua75d", "ua75e", "ua75f", "ua760", "ua761", "ua762",
      "ua763", "ua764", "ua765", "ua766", "ua767", "ua768", "ua769", "ua76a", "ua76b", "ua76c",
      "ua76d", "ua76e", "ua76f", "ua771", "ua772", "ua773", "ua774", "ua775", "ua776", "ua777",
      "ua778", "ua779", "ua77a", "ua77b", "ua77c", "ua77d", "ua77e", "ua77f", "ua780", "ua781",
      "ua782", "ua783", "ua784", "ua785", "ua786", "ua787", "ua78b", "ua78c", "ua78d", "ua78e",
      "ua790", "ua791", "ua792", "ua793", "ua794", "ua795", "ua796", "ua797", "ua798", "ua799",
      "ua79a", "ua79b", "ua79c", "ua79d", "ua79e", "ua79f", "ua7a0", "ua7a1", "ua7a2", "ua7a3",
      "ua7a4", "ua7a5", "ua7a6", "ua7a7", "ua7a8", "ua7a9", "ua7aa", "ua7ab", "ua7ac", "ua7ad",
      "ua7ae", "ua7af", "ua7b0", "ua7b1", "ua7b2", "ua7b3", "ua7b4", "ua7b5", "ua7b6", "ua7b7",
      "ua7b8", "ua7b9", "ua7ba", "ua7bb", "ua7bc", "ua7bd", "ua7be", "ua7bf", "ua7c0", "ua7c1",
      "ua7c2", "ua7c3", "ua7c4", "ua7c5", "ua7c6", "ua7c7", "ua7c8", "ua7c9", "ua7ca", "ua7d0",
      "ua7d1", "ua7d3", "ua7d5", "ua7d6", "ua7d7", "ua7d8", "ua7d9", "ua7f5", "ua7f6", "ua7fa",
      "uab30", "uab31", "uab32", "uab33", "uab34", "uab35", "uab36", "uab37", "uab38", "uab39",
      "uab3a", "uab3b", "uab3c", "uab3d", "uab3e", "uab3f", "uab40", "uab41", "uab42", "uab43",
      "uab44", "uab45", "uab46", "uab47", "uab48", "uab49", "uab4a", "uab4b", "uab4c", "uab4d",
      "uab4e", "uab4f", "uab50", "uab51", "uab52", "uab53", "uab54", "uab55", "uab56", "uab57",
      "uab58", "uab59", "uab5a", "uab60", "uab61", "uab62", "uab63", "uab64", "uab65", "uab66",
      "uab67", "uab68", "uab70", "uab71", "uab72", "uab73", "uab74", "uab75", "uab76", "uab77",
      "uab78", "uab79", "uab7a", "uab7b", "uab7c", "uab7d", "uab7e", "uab7f", "uab80", "uab81",
      "uab82", "uab83", "uab84", "uab85", "uab86", "uab87", "uab88", "uab89", "uab8a", "uab8b",
      "uab8c", "uab8d", "uab8e", "uab8f", "uab90", "uab91", "uab92", "uab93", "uab94", "uab95",
      "uab96", "uab97", "uab98", "uab99", "uab9a", "uab9b", "uab9c", "uab9d", "uab9e", "uab9f",
      "uaba0", "uaba1", "uaba2", "uaba3", "uaba4", "uaba5", "uaba6", "uaba7", "uaba8", "uaba9",
      "uabaa", "uabab", "uabac", "uabad", "uabae", "uabaf", "uabb0", "uabb1", "uabb2", "uabb3",
      "uabb4", "uabb5", "uabb6", "uabb7", "uabb8", "uabb9", "uabba", "uabbb", "uabbc", "uabbd",
      "uabbe", "uabbf", "ufb00", "ufb01", "ufb02", "ufb03", "ufb04", "ufb05", "ufb06", "ufb13",
      "ufb14", "ufb15", "ufb16", "ufb17", "uff21", "uff22", "uff23", "uff24", "uff25", "uff26",
      "uff27", "uff28", "uff29", "uff2a", "uff2b", "uff2c", "uff2d", "uff2e", "uff2f", "uff30",
      "uff31", "uff32", "uff33", "uff34", "uff35", "uff36", "uff37", "uff38", "uff39", "uff3a",
      "uff41", "uff42", "uff43", "uff44", "uff45", "uff46", "uff47", "uff48", "uff49", "uff4a",
      "uff4b", "uff4c", "uff4d", "uff4e", "uff4f", "uff50", "uff51", "uff52", "uff53", "uff54",
      "uff55", "uff56", "uff57", "uff58", "uff59", "uff5a", "u10400", "u10401", "u10402",
      "u10403", "u10404", "u10405", "u10406", "u10407", "u10408", "u10409", "u1040a", "u1040b",
      "u1040c", "u1040d", "u1040e", "u1040f", "u10410", "u10411", "u10412", "u10413", "u10414",
      "u10415", "u10416", "u10417", "u10418", "u10419", "u1041a", "u1041b", "u1041c", "u1041d",
      "u1041e", "u1041f", "u10420", "u10421", "u10422", "u10423", "u10424", "u10425", "u10426",
      "u10427", "u10428", "u10429", "u1042a", "u1042b", "u1042c", "u1042d", "u1042e", "u1042f",
      "u10430", "u10431", "u10432", "u10433", "u10434", "u10435", "u10436", "u10437", "u10438",
      "u10439", "u1043a", "u1043b", "u1043c", "u1043d", "u1043e", "u1043f", "u10440", "u10441",
      "u10442", "u10443", "u10444", "u10445", "u10446", "u10447", "u10448", "u10449", "u1044a",
      "u1044b", "u1044c", "u1044d", "u1044e", "u1044f", "u104b0", "u104b1", "u104b2", "u104b3",
      "u104b4", "u104b5", "u104b6", "u104b7", "u104b8", "u104b9", "u104ba", "u104bb", "u104bc",
      "u104bd", "u104be", "u104bf", "u104c0", "u104c1", "u104c2", "u104c3", "u104c4", "u104c5",
      "u104c6", "u104c7", "u104c8", "u104c9", "u104ca", "u104cb", "u104cc", "u104cd", "u104ce",
      "u104cf", "u104d0", "u104d1", "u104d2", "u104d3", "u104d8", "u104d9", "u104da", "u104db",
      "u104dc", "u104dd", "u104de", "u104df", "u104e0", "u104e1", "u104e2", "u104e3", "u104e4",
      "u104e5", "u104e6", "u104e7", "u104e8", "u104e9", "u104ea", "u104eb", "u104ec", "u104ed",
      "u104ee", "u104ef", "u104f0", "u104f1", "u104f2", "u104f3", "u104f4", "u104f5", "u104f6",
      "u104f7", "u104f8", "u104f9", "u104fa", "u104fb", "u10570", "u10571", "u10572", "u10573",
      "u10574", "u10575", "u10576", "u10577", "u10578", "u10579", "u1057a", "u1057c", "u1057d",
      "u1057e", "u1057f", "u10580", "u10581", "u10582", "u10583", "u10584", "u10585", "u10586",
      "u10587", "u10588", "u10589", "u1058a", "u1058c", "u1058d", "u1058e", "u1058f", "u10590",
      "u10591", "u10592", "u10594", "u10595", "u10597", "u10598", "u10599", "u1059a", "u1059b",
      "u1059c", "u1059d", "u1059e", "u1059f", "u105a0", "u105a1", "u105a3", "u105a4", "u105a5",
      "u105a6", "u105a7", "u105a8", "u105a9", "u105aa", "u105ab", "u105ac", "u105ad", "u105ae",
      "u105af", "u105b0", "u105b1", "u105b3", "u105b4", "u105b5", "u105b6", "u105b7", "u105b8",
      "u105b9", "u105bb", "u105bc", "u10c80", "u10c81", "u10c82", "u10c83", "u10c84", "u10c85",
      "u10c86", "u10c87", "u10c88", "u10c89", "u10c8a", "u10c8b", "u10c8c", "u10c8d", "u10c8e",
      "u10c8f", "u10c90", "u10c91", "u10c92", "u10c93", "u10c94", "u10c95", "u10c96", "u10c97",
      "u10c98", "u10c99", "u10c9a", "u10c9b", "u10c9c", "u10c9d", "u10c9e", "u10c9f", "u10ca0",
      "u10ca1", "u10ca2", "u10ca3", "u10ca4", "u10ca5", "u10ca6", "u10ca7", "u10ca8", "u10ca9",
      "u10caa", "u10cab", "u10cac", "u10cad", "u10cae", "u10caf", "u10cb0", "u10cb1", "u10cb2",
      "u10cc0", "u10cc1", "u10cc2", "u10cc3", "u10cc4", "u10cc5", "u10cc6", "u10cc7", "u10cc8",
      "u10cc9", "u10cca", "u10ccb", "u10ccc", "u10ccd", "u10cce", "u10ccf", "u10cd0", "u10cd1",
      "u10cd2", "u10cd3", "u10cd4", "u10cd5", "u10cd6", "u10cd7", "u10cd8", "u10cd9", "u10cda",
      "u10cdb", "u10cdc", "u10cdd", "u10cde", "u10cdf", "u10ce0", "u10ce1", "u10ce2", "u10ce3",
      "u10ce4", "u10ce5", "u10ce6", "u10ce7", "u10ce8", "u10ce9", "u10cea", "u10ceb", "u10cec",
      "u10ced", "u10cee", "u10cef", "u10cf0", "u10cf1", "u10cf2", "u118a0", "u118a1", "u118a2",
      "u118a3", "u118a4", "u118a5", "u118a6", "u118a7", "u118a8", "u118a9", "u118aa", "u118ab",
      "u118ac", "u118ad", "u118ae", "u118af", "u118b0", "u118b1", "u118b2", "u118b3", "u118b4",
      "u118b5", "u118b6", "u118b7", "u118b8", "u118b9", "u118ba", "u118bb", "u118bc", "u118bd",
      "u118be", "u118bf", "u118c0", "u118c1", "u118c2", "u118c3", "u118c4", "u118c5", "u118c6",
      "u118c7", "u118c8", "u118c9", "u118ca", "u118cb", "u118cc", "u118cd", "u118ce", "u118cf",
      "u118d0", "u118d1", "u118d2", "u118d3", "u118d4", "u118d5", "u118d6", "u118d7", "u118d8",
      "u118d9", "u118da", "u118db", "u118dc", "u118dd", "u118de", "u118df", "u16e40", "u16e41",
      "u16e42", "u16e43", "u16e44", "u16e45", "u16e46", "u16e47", "u16e48", "u16e49", "u16e4a",
      "u16e4b", "u16e4c", "u16e4d", "u16e4e", "u16e4f", "u16e50", "u16e51", "u16e52", "u16e53",
      "u16e54", "u16e55", "u16e56", "u16e57", "u16e58", "u16e59", "u16e5a", "u16e5b", "u16e5c",
      "u16e5d", "u16e5e", "u16e5f", "u16e60", "u16e61", "u16e62", "u16e63", "u16e64", "u16e65",
      "u16e66", "u16e67", "u16e68", "u16e69", "u16e6a", "u16e6b", "u16e6c", "u16e6d", "u16e6e",
      "u16e6f", "u16e70", "u16e71", "u16e72", "u16e73", "u16e74", "u16e75", "u16e76", "u16e77",
      "u16e78", "u16e79", "u16e7a", "u16e7b", "u16e7c", "u16e7d", "u16e7e", "u16e7f", "u1d400",
      "u1d401", "u1d402", "u1d403", "u1d404", "u1d405", "u1d406", "u1d407", "u1d408", "u1d409",
      "u1d40a", "u1d40b", "u1d40c", "u1d40d", "u1d40e", "u1d40f", "u1d410", "u1d411", "u1d412",
      "u1d413", "u1d414", "u1d415", "u1d416", "u1d417", "u1d418", "u1d419", "u1d41a", "u1d41b",
      "u1d41c", "u1d41d", "u1d41e", "u1d41f", "u1d420", "u1d421", "u1d422", "u1d423", "u1d424",
      "u1d425", "u1d426", "u1d427", "u1d428", "u1d429", "u1d42a", "u1d42b", "u1d42c", "u1d42d",
      "u1d42e", "u1d42f", "u1d430", "u1d431", "u1d432", "u1d433", "u1d434", "u1d435", "u1d436",
      "u1d437", "u1d438", "u1d439", "u1d43a", "u1d43b", "u1d43c", "u1d43d", "u1d43e", "u1d43f",
      "u1d440", "u1d441", "u1d442", "u1d443", "u1d444", "u1d445", "u1d446", "u1d447", "u1d448",
      "u1d449", "u1d44a", "u1d44b", "u1d44c", "u1d44d", "u1d44e", "u1d44f", "u1d450", "u1d451",
      "u1d452", "u1d453", "u1d454", "u1d456", "u1d457", "u1d458", "u1d459", "u1d45a", "u1d45b",
      "u1d45c", "u1d45d", "u1d45e", "u1d45f", "u1d460", "u1d461", "u1d462", "u1d463", "u1d464",
      "u1d465", "u1d466", "u1d467", "u1d468", "u1d469", "u1d46a", "u1d46b", "u1d46c", "u1d46d",
      "u1d46e", "u1d46f", "u1d470", "u1d471", "u1d472", "u1d473", "u1d474", "u1d475", "u1d476",
      "u1d477", "u1d478", "u1d479", "u1d47a", "u1d47b", "u1d47c", "u1d47d", "u1d47e", "u1d47f",
      "u1d480", "u1d481", "u1d482", "u1d483", "u1d484", "u1d485", "u1d486", "u1d487", "u1d488",
      "u1d489", "u1d48a", "u1d48b", "u1d48c", "u1d48d", "u1d48e", "u1d48f", "u1d490", "u1d491",
      "u1d492", "u1d493", "u1d494", "u1d495", "u1d496", "u1d497", "u1d498", "u1d499", "u1d49a",
      "u1d49b", "u1d49c", "u1d49e", "u1d49f", "u1d4a2", "u1d4a5", "u1d4a6", "u1d4a9", "u1d4aa",
      "u1d4ab", "u1d4ac", "u1d4ae", "u1d4af", "u1d4b0", "u1d4b1", "u1d4b2", "u1d4b3", "u1d4b4",
      "u1d4b5", "u1d4b6", "u1d4b7", "u1d4b8", "u1d4b9", "u1d4bb", "u1d4bd", "u1d4be", "u1d4bf",
      "u1d4c0", "u1d4c1", "u1d4c2", "u1d4c3", "u1d4c5", "u1d4c6", "u1d4c7", "u1d4c8", "u1d4c9",
      "u1d4ca", "u1d4cb", "u1d4cc", "u1d4cd", "u1d4ce", "u1d4cf", "u1d4d0", "u1d4d1", "u1d4d2",
      "u1d4d3", "u1d4d4", "u1d4d5", "u1d4d6", "u1d4d7", "u1d4d8", "u1d4d9", "u1d4da", "u1d4db",
      "u1d4dc", "u1d4dd", "u1d4de", "u1d4df", "u1d4e0", "u1d4e1", "u1d4e2", "u1d4e3", "u1d4e4",
      "u1d4e5", "u1d4e6", "u1d4e7", "u1d4e8", "u1d4e9", "u1d4ea", "u1d4eb", "u1d4ec", "u1d4ed",
      "u1d4ee", "u1d4ef", "u1d4f0", "u1d4f1", "u1d4f2", "u1d4f3", "u1d4f4", "u1d4f5", "u1d4f6",
      "u1d4f7", "u1d4f8", "u1d4f9", "u1d4fa", "u1d4fb", "u1d4fc", "u1d4fd", "u1d4fe", "u1d4ff",
      "u1d500", "u1d501", "u1d502", "u1d503", "u1d504", "u1d505", "u1d507", "u1d508", "u1d509",
      "u1d50a", "u1d50d", "u1d50e", "u1d50f", "u1d510", "u1d511", "u1d512", "u1d513", "u1d514",
      "u1d516", "u1d517", "u1d518", "u1d519", "u1d51a", "u1d51b", "u1d51c", "u1d51e", "u1d51f",
      "u1d520", "u1d521", "u1d522", "u1d523", "u1d524", "u1d525", "u1d526", "u1d527", "u1d528",
      "u1d529", "u1d52a", "u1d52b", "u1d52c", "u1d52d", "u1d52e", "u1d52f", "u1d530", "u1d531",
      "u1d532", "u1d533", "u1d534", "u1d535", "u1d536", "u1d537", "u1d538", "u1d539", "u1d53b",
      "u1d53c", "u1d53d", "u1d53e", "u1d540", "u1d541", "u1d542", "u1d543", "u1d544", "u1d546",
      "u1d54a", "u1d54b", "u1d54c", "u1d54d", "u1d54e", "u1d54f", "u1d550", "u1d552", "u1d553",
      "u1d554", "u1d555", "u1d556", "u1d557", "u1d558", "u1d559", "u1d55a", "u1d55b", "u1d55c",
      "u1d55d", "u1d55e", "u1d55f", "u1d560", "u1d561", "u1d562", "u1d563", "u1d564", "u1d565",
      "u1d566", "u1d567", "u1d568", "u1d569", "u1d56a", "u1d56b", "u1d56c", "u1d56d", "u1d56e",
      "u1d56f", "u1d570", "u1d571", "u1d572", "u1d573", "u1d574", "u1d575", "u1d576", "u1d577",
      "u1d578", "u1d579", "u1d57a", "u1d57b", "u1d57c", "u1d57d", "u1d57e", "u1d57f", "u1d580",
      "u1d581", "u1d582", "u1d583", "u1d584", "u1d585", "u1d586", "u1d587", "u1d588", "u1d589",
      "u1d58a", "u1d58b", "u1d58c", "u1d58d", "u1d58e", "u1d58f", "u1d590", "u1d591", "u1d592",
      "u1d593", "u1d594", "u1d595", "u1d596", "u1d597", "u1d598", "u1d599", "u1d59a", "u1d59b",
      "u1d59c", "u1d59d", "u1d59e", "u1d59f", "u1d5a0", "u1d5a1", "u1d5a2", "u1d5a3", "u1d5a4",
      "u1d5a5", "u1d5a6", "u1d5a7", "u1d5a8", "u1d5a9", "u1d5aa", "u1d5ab", "u1d5ac", "u1d5ad",
      "u1d5ae", "u1d5af", "u1d5b0", "u1d5b1", "u1d5b2", "u1d5b3", "u1d5b4", "u1d5b5", "u1d5b6",
      "u1d5b7", "u1d5b8", "u1d5b9", "u1d5ba", "u1d5bb", "u1d5bc", "u1d5bd", "u1d5be", "u1d5bf",
      "u1d5c0", "u1d5c1", "u1d5c2", "u1d5c3", "u1d5c4", "u1d5c5", "u1d5c6", "u1d5c7", "u1d5c8",
      "u1d5c9", "u1d5ca", "u1d5cb", "u1d5cc", "u1d5cd", "u1d5ce", "u1d5cf", "u1d5d0", "u1d5d1",
      "u1d5d2", "u1d5d3", "u1d5d4", "u1d5d5", "u1d5d6", "u1d5d7", "u1d5d8", "u1d5d9", "u1d5da",
      "u1d5db", "u1d5dc", "u1d5dd", "u1d5de", "u1d5df", "u1d5e0", "u1d5e1", "u1d5e2", "u1d5e3",
      "u1d5e4", "u1d5e5", "u1d5e6", "u1d5e7", "u1d5e8", "u1d5e9", "u1d5ea", "u1d5eb", "u1d5ec",
      "u1d5ed", "u1d5ee", "u1d5ef", "u1d5f0", "u1d5f1", "u1d5f2", "u1d5f3", "u1d5f4", "u1d5f5",
      "u1d5f6", "u1d5f7", "u1d5f8", "u1d5f9", "u1d5fa", "u1d5fb", "u1d5fc", "u1d5fd", "u1d5fe",
      "u1d5ff", "u1d600", "u1d601", "u1d602", "u1d603", "u1d604", "u1d605", "u1d606", "u1d607",
      "u1d608", "u1d609", "u1d60a", "u1d60b", "u1d60c", "u1d60d", "u1d60e", "u1d60f", "u1d610",
      "u1d611", "u1d612", "u1d613", "u1d614", "u1d615", "u1d616", "u1d617", "u1d618", "u1d619",
      "u1d61a", "u1d61b", "u1d61c", "u1d61d", "u1d61e", "u1d61f", "u1d620", "u1d621", "u1d622",
      "u1d623", "u1d624", "u1d625", "u1d626", "u1d627", "u1d628", "u1d629", "u1d62a", "u1d62b",
      "u1d62c", "u1d62d", "u1d62e", "u1d62f", "u1d630", "u1d631", "u1d632", "u1d633", "u1d634",
      "u1d635", "u1d636", "u1d637", "u1d638", "u1d639", "u1d63a", "u1d63b", "u1d63c", "u1d63d",
      "u1d63e", "u1d63f", "u1d640", "u1d641", "u1d642", "u1d643", "u1d644", "u1d645", "u1d646",
      "u1d647", "u1d648", "u1d649", "u1d64a", "u1d64b", "u1d64c", "u1d64d", "u1d64e", "u1d64f",
      "u1d650", "u1d651", "u1d652", "u1d653", "u1d654", "u1d655", "u1d656", "u1d657", "u1d658",
      "u1d659", "u1d65a", "u1d65b", "u1d65c", "u1d65d", "u1d65e", "u1d65f", "u1d660", "u1d661",
      "u1d662", "u1d663", "u1d664", "u1d665", "u1d666", "u1d667", "u1d668", "u1d669", "u1d66a",
      "u1d66b", "u1d66c", "u1d66d", "u1d66e", "u1d66f", "u1d670", "u1d671", "u1d672", "u1d673",
      "u1d674", "u1d675", "u1d676", "u1d677", "u1d678", "u1d679", "u1d67a", "u1d67b", "u1d67c",
      "u1d67d", "u1d67e", "u1d67f", "u1d680", "u1d681", "u1d682", "u1d683", "u1d684", "u1d685",
      "u1d686", "u1d687", "u1d688", "u1d689", "u1d68a", "u1d68b", "u1d68c", "u1d68d", "u1d68e",
      "u1d68f", "u1d690", "u1d691", "u1d692", "u1d693", "u1d694", "u1d695", "u1d696", "u1d697",
      "u1d698", "u1d699", "u1d69a", "u1d69b", "u1d69c", "u1d69d", "u1d69e", "u1d69f", "u1d6a0",
      "u1d6a1", "u1d6a2", "u1d6a3", "u1d6a4", "u1d6a5", "u1d6a8", "u1d6a9", "u1d6aa", "u1d6ab",
      "u1d6ac", "u1d6ad", "u1d6ae", "u1d6af", "u1d6b0", "u1d6b1", "u1d6b2", "u1d6b3", "u1d6b4",
      "u1d6b5", "u1d6b6", "u1d6b7", "u1d6b8", "u1d6b9", "u1d6ba", "u1d6bb", "u1d6bc", "u1d6bd",
      "u1d6be", "u1d6bf", "u1d6c0", "u1d6c2", "u1d6c3", "u1d6c4", "u1d6c5", "u1d6c6", "u1d6c7",
      "u1d6c8", "u1d6c9", "u1d6ca", "u1d6cb", "u1d6cc", "u1d6cd", "u1d6ce", "u1d6cf", "u1d6d0",
      "u1d6d1", "u1d6d2", "u1d6d3", "u1d6d4", "u1d6d5", "u1d6d6", "u1d6d7", "u1d6d8", "u1d6d9",
      "u1d6da", "u1d6dc", "u1d6dd", "u1d6de", "u1d6df", "u1d6e0", "u1d6e1", "u1d6e2", "u1d6e3",
      "u1d6e4", "u1d6e5", "u1d6e6", "u1d6e7", "u1d6e8", "u1d6e9", "u1d6ea", "u1d6eb", "u1d6ec",
      "u1d6ed", "u1d6ee", "u1d6ef", "u1d6f0", "u1d6f1", "u1d6f2", "u1d6f3", "u1d6f4", "u1d6f5",
      "u1d6f6", "u1d6f7", "u1d6f8", "u1d6f9", "u1d6fa", "u1d6fc", "u1d6fd", "u1d6fe", "u1d6ff",
      "u1d700", "u1d701", "u1d702", "u1d703", "u1d704", "u1d705", "u1d706", "u1d707", "u1d708",
      "u1d709", "u1d70a", "u1d70b", "u1d70c", "u1d70d", "u1d70e", "u1d70f", "u1d710", "u1d711",
      "u1d712", "u1d713", "u1d714", "u1d716", "u1d717", "u1d718", "u1d719", "u1d71a", "u1d71b",
      "u1d71c", "u1d71d", "u1d71e", "u1d71f", "u1d720", "u1d721", "u1d722", "u1d723", "u1d724",
      "u1d725", "u1d726", "u1d727", "u1d728", "u1d729", "u1d72a", "u1d72b", "u1d72c", "u1d72d",
      "u1d72e", "u1d72f", "u1d730", "u1d731", "u1d732", "u1d733", "u1d734", "u1d736", "u1d737",
      "u1d738", "u1d739", "u1d73a", "u1d73b", "u1d73c", "u1d73d", "u1d73e", "u1d73f", "u1d740",
      "u1d741", "u1d742", "u1d743", "u1d744", "u1d745", "u1d746", "u1d747", "u1d748", "u1d749",
      "u1d74a", "u1d74b", "u1d74c", "u1d74d", "u1d74e", "u1d750", "u1d751", "u1d752", "u1d753",
      "u1d754", "u1d755", "u1d756", "u1d757", "u1d758", "u1d759", "u1d75a", "u1d75b", "u1d75c",
      "u1d75d", "u1d75e", "u1d75f", "u1d760", "u1d761", "u1d762", "u1d763", "u1d764", "u1d765",
      "u1d766", "u1d767", "u1d768", "u1d769", "u1d76a", "u1d76b", "u1d76c", "u1d76d", "u1d76e",
      "u1d770", "u1d771", "u1d772", "u1d773", "u1d774", "u1d775", "u1d776", "u1d777", "u1d778",
      "u1d779", "u1d77a", "u1d77b", "u1d77c", "u1d77d", "u1d77e", "u1d77f", "u1d780", "u1d781",
      "u1d782", "u1d783", "u1d784", "u1d785", "u1d786", "u1d787", "u1d788", "u1d78a", "u1d78b",
      "u1d78c", "u1d78d", "u1d78e", "u1d78f", "u1d790", "u1d791", "u1d792", "u1d793", "u1d794",
      "u1d795", "u1d796", "u1d797", "u1d798", "u1d799", "u1d79a", "u1d79b", "u1d79c", "u1d79d",
      "u1d79e", "u1d79f", "u1d7a0", "u1d7a1", "u1d7a2", "u1d7a3", "u1d7a4", "u1d7a5", "u1d7a6",
      "u1d7a7", "u1d7a8", "u1d7aa", "u1d7ab", "u1d7ac", "u1d7ad", "u1d7ae", "u1d7af", "u1d7b0",
      "u1d7b1", "u1d7b2", "u1d7b3", "u1d7b4", "u1d7b5", "u1d7b6", "u1d7b7", "u1d7b8", "u1d7b9",
      "u1d7ba", "u1d7bb", "u1d7bc", "u1d7bd", "u1d7be", "u1d7bf", "u1d7c0", "u1d7c1", "u1d7c2",
      "u1d7c4", "u1d7c5", "u1d7c6", "u1d7c7", "u1d7c8", "u1d7c9", "u1d7ca", "u1d7cb", "u1df00",
      "u1df01", "u1df02", "u1df03", "u1df04", "u1df05", "u1df06", "u1df07", "u1df08", "u1df09",
      "u1df0b", "u1df0c", "u1df0d", "u1df0e", "u1df0f", "u1df10", "u1df11", "u1df12", "u1df13",
      "u1df14", "u1df15", "u1df16", "u1df17", "u1df18", "u1df19", "u1df1a", "u1df1b", "u1df1c",
      "u1df1d", "u1df1e", "u1e900", "u1e901", "u1e902", "u1e903", "u1e904", "u1e905", "u1e906",
      "u1e907", "u1e908", "u1e909", "u1e90a", "u1e90b", "u1e90c", "u1e90d", "u1e90e", "u1e90f",
      "u1e910", "u1e911", "u1e912", "u1e913", "u1e914", "u1e915", "u1e916", "u1e917", "u1e918",
      "u1e919", "u1e91a", "u1e91b", "u1e91c", "u1e91d", "u1e91e", "u1e91f", "u1e920", "u1e921",
      "u1e922", "u1e923", "u1e924", "u1e925", "u1e926", "u1e927", "u1e928", "u1e929", "u1e92a",
      "u1e92b", "u1e92c", "u1e92d", "u1e92e", "u1e92f", "u1e930", "u1e931", "u1e932", "u1e933",
      "u1e934", "u1e935", "u1e936", "u1e937", "u1e938", "u1e939", "u1e93a", "u1e93b", "u1e93c",
      "u1e93d", "u1e93e", "u1e93f", "u1e940", "u1e941", "u1e942", "u1e943", "u1f130", "u1f131",
      "u1f132", "u1f133", "u1f134", "u1f135", "u1f136", "u1f137", "u1f138", "u1f139", "u1f13a",
      "u1f13b", "u1f13c", "u1f13d", "u1f13e", "u1f13f", "u1f140", "u1f141", "u1f142", "u1f143",
      "u1f144", "u1f145", "u1f146", "u1f147", "u1f148", "u1f149", "u1f150", "u1f151", "u1f152",
      "u1f153", "u1f154", "u1f155", "u1f156", "u1f157", "u1f158", "u1f159", "u1f15a", "u1f15b",
      "u1f15c", "u1f15d", "u1f15e", "u1f15f", "u1f160", "u1f161", "u1f162", "u1f163", "u1f164",
      "u1f165", "u1f166", "u1f167", "u1f168", "u1f169", "u1f170", "u1f171", "u1f172", "u1f173",
      "u1f174", "u1f175", "u1f176", "u1f177", "u1f178", "u1f179", "u1f17a", "u1f17b", "u1f17c",
      "u1f17d", "u1f17e", "u1f17f", "u1f180", "u1f181", "u1f182", "u1f183", "u1f184", "u1f185",
      "u1f186", "u1f187", "u1f188", "u1f189" }

\* the case-ignorable characters
CaseIgnorable ==
    { "'", ".", ":", "^", "u0060", "u00a8", "u00ad", "u00af", "u00b4", "u00b7", "u00b8",
      "u02b0", "u02b1", "u02b2", "u02b3", "u02b4", "u02b5", "u02b6", "u02b7", "u02b8", "u02b9",
      "u02ba", "u02bb", "u02bc", "u02bd", "u02be", "u02bf", "u02c0", "u02c1", "u02c2", "u02c3",
      "u02c4", "u02c5", "u02c6", "u02c7", "u02c8", "u02c9", "u02ca", "u02cb", "u02cc", "u02cd",
      "u02ce", "u02cf", "u02d0", "u02d1", "u02d2", "u02d3", "u02d4", "u02d5", "u02d6", "u02d7",
      "u02d8", "u02d9", "u02da", "u02db", "u02dc", "u02dd", "u02de", "u02df", "u02e0", "u02e1",
      "u02e2", "u02e3", "u02e4", "u02e5", "u02e6", "u02e7", "u02e8", "u02e9", "u02ea", "u02eb",
      "u02ec", "u02ed", "u02ee", "u02ef", "u02f0", "u02f1", "u02f2", "u02f3", "u02f4", "u02f5",
      "u02f6", "u02f7", "u02f8", "u02f9", "u02fa", "u02fb", "u02fc", "u02fd", "u02fe", "u02ff",
      "u0300", "u0301", "u0302", "u0303", "u0304", "u0305", "u0306", "u0307", "u0308", "u0309",
      "u030a", "u030b", "u030c", "u030d", "u030e", "u030f", "u0310", "u0311", "u0312", "u0313",
      "u0314", "u0315", "u0316", "u0317", "u0318", "u0319", "u031a", "u031b", "u031c", "u031d",
      "u031e", "u031f", "u0320", "u0321", "u0322", "u0323", "u0324", "u0325", "u0326", "u0327",
      "u0328", "u0329", "u032a", "u032b", "u032c", "u032d", "u032e", "u032f", "u0330", "u0331",
      "u0332", "u0333", "u0334", "u0335", "u0336", "u0337", "u0338", "u0339", "u033a", "u033b",
      "u033c", "u033d", "u033e", "u033f", "u0340", "u0341", "u0342", "u0343", "u0344", "u0345",
      "u0346", "u0347", "u0348", "u0349", "u034a", "u034b", "u034c", "u034d", "u034e", "u034f",
      "u0350", "u0351", "u0352", "u0353", "u0354", "u0355", "u0356", "u0357", "u0358", "u0359",
      "u035a", "u035b", "u035c", "u035d", "u035e", "u035f", "u0360", "u0361", "u0362", "u0363",
      "u0364", "u0365", "u0366", "u0367", "u0368", "u0369", "u036a", "u036b", "u036c", "u036d",
      "u036e", "u036f", "u0374", "u0375", "u037a", "u0384", "u0385", "u0387", "u0483", "u0484",
      "u0485", "u0486", "u0487", "u0488", "u0489", "u0559", "u055f", "u0591", "u0592", "u0593",
      "u0594", "u0595", "u0596", "u0597", "u0598", "u0599", "u059a", "u059b", "u059c", "u059d",
      "u059e", "u059f", "u05a0", "u05a1", "u05a2", "u05a3", "u05a4", "u05a5", "u05a6", "u05a7",
      "u05a8", "u05a9", "u05aa", "u05ab", "u05ac", "u05ad", "u05ae", "u05af", "u05b0", "u05b1",
      "u05b2", "u05b3", "u05b4", "u05b5", "u05b6", "u05b7", "u05b8", "u05b9", "u05ba", "u05bb",
      "u05bc", "u05bd", "u05bf", "u05c1", "u05c2", "u05c4", "u05c5", "u05c7", "u05f4", "u0600",
      "u0601", "u0602", "u0603", "u0604", "u0605", "u0610", "u0611", "u0612", "u0613", "u0614",
      "u0615", "u0616", "u0617", "u0618", "u0619", "u061a", "u061c", "u0640", "u064b", "u064c",
      "u064d", "u064e", "u064f", "u0650", "u0651", "u0652", "u0653", "u0654", "u0655", "u0656",
      "u0657", "u0658", "u0659", "u065a", "u065b", "u065c", "u065d", "u065e", "u065f", "u0670",
      "u06d6", "u06d7", "u06d8", "u06d9", "u06da", "u06db", "u06dc", "u06dd", "u06df", "u06e0",
      "u06e1", "u06e2", "u06e3", "u06e4", "u06e5", "u06e6", "u06e7", "u06e8", "u06ea", "u06eb",
      "u06ec", "u06ed", "u070f", "u0711", "u0730", "u0731", "u0732", "u0733", "u0734", "u0735",
      "u0736", "u0737", "u0738", "u0739", "u073a", "u073b", "u073c", "u073d", "u073e", "u073f",
      "u0740", "u0741", "u0742", "u0743", "u0744", "u0745", "u0746", "u0747", "u0748", "u0749",
      "u074a", "u07a6", "u07a7", "u07a8", "u07a9", "u07aa", "u07ab", "u07ac", "u07ad", "u07ae",
      "u07af", "u07b0", "u07eb", "u07ec", "u07ed", "u07ee", "u07ef", "u07f0", "u07f1", "u07f2",
      "u07f3", "u07f4", "u07f5", "u07fa", "u07fd", "u0816", "u0817", "u0818", "u0819", "u081a",
      "u081b", "u081c", "u081d", "u081e", "u081f", "u0820", "u0821", "u0822", "u0823", "u0824",
      "u0825", "u0826", "u0827", "u0828", "u0829", "u082a", "u082b", "u082c", "u082d", "u0859",
      "u085a", "u085b", "u0888", "u0890", "u0891", "u0898", "u0899", "u089a", "u089b", "u089c",
      "u089d", "u089e", "u089f", "u08c9", "u08ca", "u08cb", "u08cc", "u08cd", "u08ce", "u08cf",
      "u08d0", "u08d1", "u08d2", "u08d3", "u08d4", "u08d5", "u08d6", "u08d7", "u08d8", "u08d9",
      "u08da", "u08db", "u08dc", "u08dd", "u08de", "u08df", "u08e0", "u08e1", "u08e2", "u08e3",
      "u08e4", "u08e5", "u08e6", "u08e7", "u08e8", "u08e9", "u08ea", "u08eb", "u08ec", "u08ed",
      "u08ee", "u08ef", "u08f0", "u08f1", "u08f2", "u08f3", "u08f4", "u08f5", "u08f6", "u08f7",
      "u08f8", "u08f9", "u08fa", "u08fb", "u08fc", "u08fd", "u08fe", "u08ff", "u0900", "u0901",
      "u0902", "u093a", "u093c", "u0941", "u0942", "u0943", "u0944", "u0945", "u0946", "u0947",
      "u0948", "u094d", "u0951", "u0952", "u0953", "u0954", "u0955", "u0956", "u0957", "u0962",
      "u0963", "u0971", "u0981", "u09bc", "u09c1", "u09c2", "u09c3", "u09c4", "u09cd", "u09e2",
      "u09e3", "u09fe", "u0a01", "u0a02", "u0a3c", "u0a41", "u0a42", "u0a47", "u0a48", "u0a4b",
      "u0a4c", "u0a4d", "u0a51", "u0a70", "u0a71", "u0a75", "u0a81", "u0a82", "u0abc", "u0ac1",
      "u0ac2", "u0ac3", "u0ac4", "u0ac5", "u0ac7", "u0ac8", "u0acd", "u0ae2", "u0ae3", "u0afa",
      "u0afb", "u0afc", "u0afd", "u0afe", "u0aff", "u0b01", "u0b3c", "u0b3f", "u0b41", "u0b42",
      "u0b43", "u0b44", "u0b4d", "u0b55", "u0b56", "u0b62", "u0b63", "u0b82", "u0bc0", "u0bcd",
      "u0c00", "u0c04", "u0c3c", "u0c3e", "u0c3f", "u0c40", "u0c46", "u0c47", "u0c48", "u0c4a",
      "u0c4b", "u0c4c", "u0c4d", "u0c55", "u0c56", "u0c62", "u0c63", "u0c81", "u0cbc", "u0cbf",
      "u0cc6", "u0ccc", "u0ccd", "u0ce2", "u0ce3", "u0d00", "u0d01", "u0d3b", "u0d3c", "u0d41",
      "u0d42", "u0d43", "u0d44", "u0d4d", "u0d62", "u0d63", "u0d81", "u0dca", "u0dd2", "u0dd3",
      "u0dd4", "u0dd6", "u0e31", "u0e34", "u0e35", "u0e36", "u0e37", "u0e38", "u0e39", "u0e3a",
      "u0e46", "u0e47", "u0e48", "u0e49", "u0e4a", "u0e4b", "u0e4c", "u0e4d", "u0e4e", "u0eb1",
      "u0eb4", "u0eb5", "u0eb6", "u0eb7", "u0eb8", "u0eb9", "u0eba", "u0ebb", "u0ebc", "u0ec6",
      "u0ec8", "u0ec9", "u0eca", "u0ecb", "u0ecc", "u0ecd", "u0f18", "u0f19", "u0f35", "u0f37",
      "u0f39", "u0f71", "u0f72", "u0f73", "u0f74", "u0f75", "u0f76", "u0f77", "u0f78", "u0f79",
      "u0f7a", "u0f7b", "u0f7c", "u0f7d", "u0f7e", "u0f80", "u0f81", "u0f82", "u0f83", "u0f84",
      "u0f86", "u0f87", "u0f8d", "u0f8e", "u0f8f", "u0f90", "u0f91", "u0f92", "u0f93", "u0f94",
      "u0f95", "u0f96", "u0f97", "u0f99", "u0f9a", "u0f9b", "u0f9c", "u0f9d", "u0f9e", "u0f9f",
      "u0fa0", "u0fa1", "u0fa2", "u0fa3", "u0fa4", "u0fa5", "u0fa6", "u0fa7", "u0fa8", "u0fa9",
      "u0faa", "u0fab", "u0fac", "u0fad", "u0fae", "u0faf", "u0fb0", "u0fb1", "u0fb2", "u0fb3",
      "u0fb4", "u0fb5", "u0fb6", "u0fb7", "u0fb8", "u0fb9", "u0fba", "u0fbb", "u0fbc", "u0fc6",
      "u102d", "u102e", "u102f", "u1030", "u1032", "u1033", "u1034", "u1035", "u1036", "u1037",
      "u1039", "u103a", "u103d", "u103e", "u1058", "u1059", "u105e", "u105f", "u1060", "u1071",
      "u1072", "u1073", "u1074", "u1082", "u1085", "u1086", "u108d", "u109d", "u10fc", "u135d",
      "u135e", "u135f", "u1712", "u1713", "u1714", "u1732", "u1733", "u1752", "u1753", "u1772",
      "u1773", "u17b4", "u17b5", "u17b7", "u17b8", "u17b9", "u17ba", "u17bb", "u17bc", "u17bd",
      "u17c6", "u17c9", "u17ca", "u17cb", "u17cc", "u17cd", "u17ce", "u17cf", "u17d0", "u17d1",
      "u17d2", "u17d3", "u17d7", "u17dd", "u180b", "u180c", "u180d", "u180e", "u180f", "u1843",
      "u1885", "u1886", "u18a9", "u1920", "u1921", "u1922", "u1927", "u1928", "u1932", "u1939",
      "u193a", "u193b", "u1a17", "u1a18", "u1a1b", "u1a56", "u1a58", "u1a59", "u1a5a", "u1a5b",
      "u1a5c", "u1a5d", "u1a5e", "u1a60", "u1a62", "u1a65", "u1a66", "u1a67", "u1a68", "u1a69",
      "u1a6a", "u1a6b", "u1a6c", "u1a73", "u1a74", "u1a75", "u1a76", "u1a77", "u1a78", "u1a79",
      "u1a7a", "u1a7b", "u1a7c", "u1a7f", "u1aa7", "u1ab0", "u1ab1", "u1ab2", "u1ab3", "u1ab4",
      "u1ab5", "u1ab6", "u1ab7", "u1ab8", "u1ab9", "u1aba", "u1abb", "u1abc", "u1abd", "u1abe",
      "u1abf", "u1ac0", "u1ac1", "u1ac2", "u1ac3", "u1ac4", "u1ac5", "u1ac6", "u1ac7", "u1ac8",
      "u1ac9", "u1aca", "u1acb", "u1acc", "u1acd", "u1ace", "u1b00", "u1b01", "u1b02", "u1b03",
      "u1b34", "u1b36", "u1b37", "u1b38", "u1b39", "u1b3a", "u1b3c", "u1b42", "u1b6b", "u1b6c",
      "u1b6d", "u1b6e", "u1b6f", "u1b70", "u1b71", "u1b72", "u1b73", "u1b80", "u1b81", "u1ba2",
      "u1ba3", "u1ba4", "u1ba5", "u1ba8", "u1ba9", "u1bab", "u1bac", "u1bad", "u1be6", "u1be8",
      "u1be9", "u1bed", "u1bef", "u1bf0", "u1bf1", "u1c2c", "u1c2d", "u1c2e", "u1c2f", "u1c30",
      "u1c31", "u1c32", "u1c33", "u1c36", "u1c37", "u1c78", "u1c79", "u1c7a", "u1c7b", "u1c7c",
      "u1c7d", "u1cd0", "u1cd1", "u1cd2", "u1cd4", "u1cd5", "u1cd6", "u1cd7", "u1cd8", "u1cd9",
      "u1cda", "u1cdb", "u1cdc", "u1cdd", "u1cde", "u1cdf", "u1ce0", "u1ce2", "u1ce3", "u1ce4",
      "u1ce5", "u1ce6", "u1ce7", "u1ce8", "u1ced", "u1cf4", "u1cf8", "u1cf9", "u1d2c", "u1d2d",
      "u1d2e", "u1d2f", "u1d30", "u1d31", "u1d32", "u1d33", "u1d34", "u1d35", "u1d36", "u1d37",
      "u1d38", "u1d39", "u1d3a", "u1d3b", "u1d3c", "u1d3d", "u1d3e", "u1d3f", "u1d40", "u1d41",
      "u1d42", "u1d43", "u1d44", "u1d45", "u1d46", "u1d47", "u1d48", "u1d49", "u1d4a", "u1d4b",
      "u1d4c", "u1d4d", "u1d4e", "u1d4f", "u1d50", "u1d51", "u1d52", "u1d53", "u1d54", "u1d55",
      "u1d56", "u1d57", "u1d58", "u1d59", "u1d5a", "u1d5b", "u1d5c", "u1d5d", "u1d5e", "u1d5f",
      "u1d60", "u1d61", "u1d62", "u1d63", "u1d64", "u1d65", "u1d66", "u1d67", "u1d68", "u1d69",
      "u1d6a", "u1d78", "u1d9b", "u1d9c", "u1d9d", "u1d9e", "u1d9f", "u1da0", "u1da1", "u1da2",
      "u1da3", "u1da4", "u1da5", "u1da6", "u1da7", "u1da8", "u1da9", "u1daa", "u1dab", "u1dac",
      "u1dad", "u1dae", "u1daf", "u1db0", "u1db1", "u1db2", "u1db3", "u1db4", "u1db5", "u1db6",
      "u1db7", "u1db8", "u1db9", "u1dba", "u1dbb", "u1dbc", "u1dbd", "u1dbe", "u1dbf", "u1dc0",
      "u1dc1", "u1dc2", "u1dc3", "u1dc4", "u1dc5", "u1dc6", "u1dc7", "u1dc8", "u1dc9", "u1dca",
      "u1dcb", "u1dcc", "u1dcd", "u1dce", "u1dcf", "u1dd0", "u1dd1", "u1dd2", "u1dd3", "u1dd4",
      "u1dd5", "u1dd6", "u1dd7", "u1dd8", "u1dd9", "u1dda", "u1ddb", "u1ddc", "u1ddd", "u1dde",
      "u1ddf", "u1de0", "u1de1", "u1de2", "u1de3", "u1de4", "u1de5", "u1de6", "u1de7", "u1de8",
      "u1de9", "u1dea", "u1deb", "u1dec", "u1ded", "u1dee", "u1def", "u1df0", "u1df1", "u1df2",
      "u1df3", "u1df4", "u1df5", "u1df6", "u1df7", "u1df8", "u1df9", "u1dfa", "u1dfb", "u1dfc",
      "u1dfd", "u1dfe", "u1dff", "u1fbd", "u1fbf", "u1fc0", "u1fc1", "u1fcd", "u1fce", "u1fcf",
      "u1fdd", "u1fde", "u1fdf", "u1fed", "u1fee", "u1fef", "u1ffd", "u1ffe", "u200b", "u200c",
      "u200d", "u200e", "u200f", "u2018", "u2019", "u2024", "u2027", "u202a", "u202b", "u202c",
      "u202d", "u202e", "u2060", "u2061", "u2062", "u2063", "u2064", "u2066", "u2067", "u2068",
      "u2069", "u206a", "u206b", "u206c", "u206d", "u206e", "u206f", "u2071", "u207f", "u2090",
      "u2091", "u2092", "u2093", "u2094", "u2095", "u2096", "u2097", "u2098", "u2099", "u209a",
      "u209b", "u209c", "u20d0", "u20d1", "u20d2", "u20d3", "u20d4", "u20d5", "u20d6", "u20d7",
      "u20d8", "u20d9", "u20da", "u20db", "u20dc", "u20dd", "u20de", "u20df", "u20e0", "u20e1",
      "u20e2", "u20e3", "u20e4", "u20e5", "u20e6", "u20e7", "u20e8", "u20e9", "u20ea", "u20eb",
      "u20ec", "u20ed", "u20ee", "u20ef", "u20f0", "u2c7c", "u2c7d", "u2cef", "u2cf0", "u2cf1",
      "u2d6f", "u2d7f", "u2de0", "u2de1", "u2de2", "u2de3", "u2de4", "u2de5", "u2de6", "u2de7",
      "u2de8", "u2de9", "u2dea", "u2deb", "u2dec", "u2ded", "u2dee", "u2def", "u2df0", "u2df1",
      "u2df2", "u2df3", "u2df4", "u2df5", "u2df6", "u2df7", "u2df8", "u2df9", "u2dfa", "u2dfb",
      "u2dfc", "u2dfd", "u2dfe", "u2dff", "u2e2f", "u3005", "u302a", "u302b", "u302c", "u302d",
      "u3031", "u3032", "u3033", "u3034", "u3035", "u303b", "u3099", "u309a", "u309b", "u309c",
      "u309d", "u309e", "u30fc", "u30fd", "u30fe", "ua015", "ua4f8", "ua4f9", "ua4fa", "ua4fb",
      "ua4fc", "ua4fd", "ua60c", "ua66f", "ua670", "ua671", "ua672", "ua674", "ua675", "ua676",
      "ua677", "ua678", "ua679", "ua67a", "ua67b", "ua67c", "ua67d", "ua67f", "ua69c", "ua69d",
      "ua69e", "ua69f", "ua6f0", "ua6f1", "ua700", "ua701", "ua702", "ua703", "ua704", "ua705",
      "ua706", "ua707", "ua708", "ua709", "ua70a", "ua70b", "ua70c", "ua70d", "ua70e", "ua70f",
      "ua710", "ua711", "ua712", "ua713", "ua714", "ua715", "ua716", "ua717", "ua718", "ua719",
      "ua71a", "ua71b", "ua71c", "ua71d", "ua71e", "ua71f", "ua720", "ua721", "ua770", "ua788",
      "ua789", "ua78a", "ua7f2", "ua7f3", "ua7f4", "ua7f8", "ua7f9", "ua802", "ua806", "ua80b",
      "ua825", "ua826", "ua82c", "ua8c4", "ua8c5", "ua8e0", "ua8e1", "ua8e2", "ua8e3", "ua8e4",
      "ua8e5", "ua8e6", "ua8e7", "ua8e8", "ua8e9", "ua8ea", "ua8eb", "ua8ec", "ua8ed", "ua8ee",
      "ua8ef", "ua8f0", "ua8f1", "ua8ff", "ua926", "ua927", "ua928", "ua929", "ua92a", "ua92b",
      "ua92c", "ua92d", "ua947", "ua948", "ua949", "ua94a", "ua94b", "ua94c", "ua94d", "ua94e",
      "ua94f", "ua950", "ua951", "ua980", "ua981", "ua982", "ua9b3", "ua9b6", "ua9b7", "ua9b8",
      "ua9b9", "ua9bc", "ua9bd", "ua9cf", "ua9e5", "ua9e6", "uaa29", "uaa2a", "uaa2b", "uaa2c",
      "uaa2d", "uaa2e", "uaa31", "uaa32", "uaa35", "uaa36", "uaa43", "uaa4c", "uaa70", "uaa7c",
      "uaab0", "uaab2", "uaab3", "uaab4", "uaab7", "uaab8", "uaabe", "uaabf", "uaac1", "uaadd",
      "uaaec", "uaaed", "uaaf3", "uaaf4", "uaaf6", "uab5b", "uab5c", "uab5d", "uab5e", "uab5f",
      "uab69", "uab6a", "uab6b", "uabe5", "uabe8", "uabed", "ufb1e", "ufbb2", "ufbb3", "ufbb4",
      "ufbb5", "ufbb6", "ufbb7", "ufbb8", "ufbb9", "ufbba", "ufbbb", "ufbbc", "ufbbd", "ufbbe",
      "ufbbf", "ufbc0", "ufbc1", "ufbc2", "ufe00", "ufe01", "ufe02", "ufe03", "ufe04", "ufe05",
      "ufe06", "ufe07", "ufe08", "ufe09", "ufe0a", "ufe0b", "ufe0c", "ufe0d", "ufe0e", "ufe0f",
      "ufe13", "ufe20", "ufe21", "ufe22", "ufe23", "ufe24", "ufe25", "ufe26", "ufe27", "ufe28",
      "ufe29", "ufe2a", "ufe2b", "ufe2c", "ufe2d", "ufe2e", "ufe2f", "ufe52", "ufe55", "ufeff",
      "uff07", "uff0e", "uff1a", "uff3e", "uff40", "uff70", "uff9e", "uff9f", "uffe3", "ufff9",
      "ufffa", "ufffb", "u101fd", "u102e0", "u10376", "u10377", "u10378", "u10379", "u1037a",
      "u10780", "u10781", "u10782", "u10783", "u10784", "u10785", "u10787", "u10788", "u10789",
      "u1078a", "u1078b", "u1078c", "u1078d", "u1078e", "u1078f", "u10790", "u10791", "u10792",
      "u10793", "u10794", "u10795", "u10796", "u10797", "u10798", "u10799", "u1079a", "u1079b",
      "u1079c", "u1079d", "u1079e", "u1079f", "u107a0", "u107a1", "u107a2", "u107a3", "u107a4",
      "u107a5", "u107a6", "u107a7", "u107a8", "u107a9", "u107aa", "u107ab", "u107ac", "u107ad",
      "u107ae", "u107af", "u107b0", "u107b2", "u107b3", "u107b4", "u107b5", "u107b6", "u107b7",
      "u107b8", "u107b9", "u107ba", "u10a01", "u10a02", "u10a03", "u10a05", "u10a06", "u10a0c",
      "u10a0d", "u10a0e", "u10a0f", "u10a38", "u10a39", "u10a3a", "u10a3f", "u10ae5", "u10ae6",
      "u10d24", "u10d25", "u10d26", "u10d27", "u10eab", "u10eac", "u10f46", "u10f47", "u10f48",
      "u10f49", "u10f4a", "u10f4b", "u10f4c", "u10f4d", "u10f4e", "u10f4f", "u10f50", "u10f82",
      "u10f83", "u10f84", "u10f85", "u11001", "u11038", "u11039", "u1103a", "u1103b", "u1103c",
      "u1103d", "u1103e", "u1103f", "u11040", "u11041", "u11042", "u11043", "u11044", "u11045",
      "u11046", "u11070", "u11073", "u11074", "u1107f", "u11080", "u11081", "u110b3", "u110b4",
      "u110b5", "u110b6", "u110b9", "u110ba", "u110bd", "u110c2", "u110cd", "u11100", "u11101",
      "u11102", "u11127", "u11128", "u11129", "u1112a", "u1112b", "u1112d", "u1112e", "u1112f",
      "u11130", "u11131", "u11132", "u11133", "u11134", "u11173", "u11180", "u11181", "u111b6",
      "u111b7", "u111b8", "u111b9", "u111ba", "u111bb", "u111bc", "u111bd", "u111be", "u111c9",
      "u111ca", "u111cb", "u111cc", "u111cf", "u1122f", "u11230", "u11231", "u11234", "u11236",
      "u11237", "u1123e", "u112df", "u112e3", "u112e4", "u112e5", "u112e6", "u112e7", "u112e8",
      "u112e9", "u112ea", "u11300", "u11301", "u1133b", "u1133c", "u11340", "u11366", "u11367",
      "u11368", "u11369", "u1136a", "u1136b", "u1136c", "u11370", "u11371", "u11372", "u11373",
      "u11374", "u11438", "u11439", "u1143a", "u1143b", "u1143c", "u1143d", "u1143e", "u1143f",
      "u11442", "u11443", "u11444", "u11446", "u1145e", "u114b3", "u114b4", "u114b5", "u114b6",
      "u114b7", "u114b8", "u114ba", "u114bf", "u114c0", "u114c2", "u114c3", "u115b2", "u115b3",
      "u115b4", "u115b5", "u115bc", "u115bd", "u115bf", "u115c0", "u115dc", "u115dd", "u11633",
      "u11634", "u11635", "u11636", "u11637", "u11638", "u11639", "u1163a", "u1163d", "u1163f",
      "u11640", "u116ab", "u116ad", "u116b0", "u116b1", "u116b2", "u116b3", "u116b4", "u116b5",
      "u116b7", "u1171d", "u1171e", "u1171f", "u11722", "u11723", "u11724", "u11725", "u11727",
      "u11728", "u11729", "u1172a", "u1172b", "u1182f", "u11830", "u11831", "u11832", "u11833",
      "u11834", "u11835", "u11836", "u11837", "u11839", "u1183a", "u1193b", "u1193c", "u1193e",
      "u11943", "u119d4", "u119d5", "u119d6", "u119d7", "u119da", "u119db", "u119e0", "u11a01",
      "u11a02", "u11a03", "u11a04", "u11a05", "u11a06", "u11a07", "u11a08", "u11a09", "u11a0a",
      "u11a33", "u11a34", "u11a35", "u11a36", "u11a37", "u11a38", "u11a3b", "u11a3c", "u11a3d",
      "u11a3e", "u11a47", "u11a51", "u11a52", "u11a53", "u11a54", "u11a55", "u11a56", "u11a59",
      "u11a5a", "u11a5b", "u11a8a", "u11a8b", "u11a8c", "u11a8d", "u11a8e", "u11a8f", "u11a90",
      "u11a91", "u11a92", "u11a93", "u11a94", "u11a95", "u11a96", "u11a98", "u11a99", "u11c30",
      "u11c31", "u11c32", "u11c33", "u11c34", "u11c35", "u11c36", "u11c38", "u11c39", "u11c3a",
      "u11c3b", "u11c3c", "u11c3d", "u11c3f", "u11c92", "u11c93", "u11c94", "u11c95", "u11c96",
      "u11c97", "u11c98", "u11c99", "u11c9a", "u11c9b", "u11c9c", "u11c9d", "u11c9e", "u11c9f",
      "u11ca0", "u11ca1", "u11ca2", "u11ca3", "u11ca4", "u11ca5", "u11ca6", "u11ca7", "u11caa",
      "u11cab", "u11cac", "u11cad", "u11cae", "u11caf", "u11cb0", "u11cb2", "u11cb3", "u11cb5",
      "u11cb6", "u11d31", "u11d32", "u11d33", "u11d34", "u11d35", "u11d36", "u11d3a", "u11d3c",
      "u11d3d", "u11d3f", "u11d40", "u11d41", "u11d42", "u11d43", "u11d44", "u11d45", "u11d47",
      "u11d90", "u11d91", "u11d95", "u11d97", "u11ef3", "u11ef4", "u13430", "u13431", "u13432",
      "u13433", "u13434", "u13435", "u13436", "u13437", "u13438", "u16af0", "u16af1", "u16af2",
      "u16af3", "u16af4", "u16b30", "u16b31", "u16b32", "u16b33", "u16b34", "u16b35", "u16b36",
      "u16b40", "u16b41", "u16b42", "u16b43", "u16f4f", "u16f8f", "u16f90", "u16f91", "u16f92",
      "u16f93", "u16f94", "u16f95", "u16f96", "u16f97", "u16f98", "u16f99", "u16f9a", "u16f9b",
      "u16f9c", "u16f9d", "u16f9e", "u16f9f", "u16fe0", "u16fe1", "u16fe3", "u16fe4", "u1aff0",
      "u1aff1", "u1aff2", "u1aff3", "u1aff5", "u1aff6", "u1aff7", "u1aff8", "u1aff9", "u1affa",
      "u1affb", "u1affd", "u1affe", "u1bc9d", "u1bc9e", "u1bca0", "u1bca1", "u1bca2", "u1bca3",
      "u1cf00", "u1cf01", "u1cf02", "u1cf03", "u1cf04", "u1cf05", "u1cf06", "u1cf07", "u1cf08",
      "u1cf09", "u1cf0a", "u1cf0b", "u1cf0c", "u1cf0d", "u1cf0e", "u1cf0f", "u1cf10", "u1cf11",
      "u1cf12", "u1cf13", "u1cf14", "u1cf15", "u1cf16", "u1cf17", "u1cf18", "u1cf19", "u1cf1a",
      "u1cf1b", "u1cf1c", "u1cf1d", "u1cf1e", "u1cf1f", "u1cf20", "u1cf21", "u1cf22", "u1cf23",
      "u1cf24", "u1cf25", "u1cf26", "u1cf27", "u1cf28", "u1cf29", "u1cf2a", "u1cf2b", "u1cf2c",
      "u1cf2d", "u1cf30", "u1cf31", "u1cf32", "u1cf33", "u1cf34", "u1cf35", "u1cf36", "u1cf37",
      "u1cf38", "u1cf39", "u1cf3a", "u1cf3b", "u1cf3c", "u1cf3d", "u1cf3e", "u1cf3f", "u1cf40",
      "u1cf41", "u1cf42", "u1cf43", "u1cf44", "u1cf45", "u1cf46", "u1d167", "u1d168", "u1d169",
      "u1d173", "u1d174", "u1d175", "u1d176", "u1d177", "u1d178", "u1d179", "u1d17a", "u1d17b",
      "u1d17c", "u1d17d", "u1d17e", "u1d17f", "u1d180", "u1d181", "u1d182", "u1d185", "u1d186",
      "u1d187", "u1d188", "u1d189", "u1d18a", "u1d18b", "u1d1aa", "u1d1ab", "u1d1ac", "u1d1ad",
      "u1d242", "u1d243", "u1d244", "u1da00", "u1da01", "u1da02", "u1da03", "u1da04", "u1da05",
      "u1da06", "u1da07", "u1da08", "u1da09", "u1da0a", "u1da0b", "u1da0c", "u1da0d", "u1da0e",
      "u1da0f", "u1da10", "u1da11", "u1da12", "u1da13", "u1da14", "u1da15", "u1da16", "u1da17",
      "u1da18", "u1da19", "u1da1a", "u1da1b", "u1da1c", "u1da1d", "u1da1e", "u1da1f", "u1da20",
      "u1da21", "u1da22", "u1da23", "u1da24", "u1da25", "u1da26", "u1da27", "u1da28", "u1da29",
      "u1da2a", "u1da2b", "u1da2c", "u1da2d", "u1da2e", "u1da2f", "u1da30", "u1da31", "u1da32",
      "u1da33", "u1da34", "u1da35", "u1da36", "u1da3b", "u1da3c", "u1da3d", "u1da3e", "u1da3f",
      "u1da40", "u1da41", "u1da42", "u1da43", "u1da44", "u1da45", "u1da46", "u1da47", "u1da48",
      "u1da49", "u1da4a", "u1da4b", "u1da4c", "u1da4d", "u1da4e", "u1da4f", "u1da50", "u1da51",
      "u1da52", "u1da53", "u1da54", "u1da55", "u1da56", "u1da57", "u1da58", "u1da59", "u1da5a",
      "u1da5b", "u1da5c", "u1da5d", "u1da5e", "u1da5f", "u1da60", "u1da61", "u1da62", "u1da63",
      "u1da64", "u1da65", "u1da66", "u1da67", "u1da68", "u1da69", "u1da6a", "u1da6b", "u1da6c",
      "u1da75", "u1da84", "u1da9b", "u1da9c", "u1da9d", "u1da9e", "u1da9f", "u1daa1", "u1daa2",
      "u1daa3", "u1daa4", "u1daa5", "u1daa6", "u1daa7", "u1daa8", "u1daa9", "u1daaa", "u1daab",
      "u1daac", "u1daad", "u1daae", "u1daaf", "u1e000", "u1e001", "u1e002", "u1e003", "u1e004",
      "u1e005", "u1e006", "u1e008", "u1e009", "u1e00a", "u1e00b", "u1e00c", "u1e00d", "u1e00e",
      "u1e00f", "u1e010", "u1e011", "u1e012", "u1e013", "u1e014", "u1e015", "u1e016", "u1e017",
      "u1e018", "u1e01b", "u1e01c", "u1e01d", "u1e01e", "u1e01f", "u1e020", "u1e021", "u1e023",
      "u1e024", "u1e026", "u1e027", "u1e028", "u1e029", "u1e02a", "u1e130", "u1e131", "u1e132",
      "u1e133", "u1e134", "u1e135", "u1e136", "u1e137", "u1e138", "u1e139", "u1e13a", "u1e13b",
      "u1e13c", "u1e13d", "u1e2ae", "u1e2ec", "u1e2ed", "u1e2ee", "u1e2ef", "u1e8d0", "u1e8d1",
      "u1e8d2", "u1e8d3", "u1e8d4", "u1e8d5", "u1e8d6", "u1e944", "u1e945", "u1e946", "u1e947",
      "u1e948", "u1e949", "u1e94a", "u1e94b", "u1f3fb", "u1f3fc", "u1f3fd", "u1f3fe", "u1f3ff",
      "ue0001", "ue0020", "ue0021", "ue0022", "ue0023", "ue0024", "ue0025", "ue0026", "ue0027",
      "ue0028", "ue0029", "ue002a", "ue002b", "ue002c", "ue002d", "ue002e", "ue002f", "ue0030",
      "ue0031", "ue0032", "ue0033", "ue0034", "ue0035", "ue0036", "ue0037", "ue0038", "ue0039",
      "ue003a", "ue003b", "ue003c", "ue003d", "ue003e", "ue003f", "ue0040", "ue0041", "ue0042",
      "ue0043", "ue0044", "ue0045", "ue0046", "ue0047", "ue0048", "ue0049", "ue004a", "ue004b",
      "ue004c", "ue004d", "ue004e", "ue004f", "ue0050", "ue0051", "ue0052", "ue0053", "ue0054",
      "ue0055", "ue0056", "ue0057", "ue0058", "ue0059", "ue005a", "ue005b", "ue005c", "ue005d",
      "ue005e", "ue005f", "ue0060", "ue0061", "ue0062", "ue0063", "ue0064", "ue0065", "ue0066",
      "ue0067", "ue0068", "ue0069", "ue006a", "ue006b", "ue006c", "ue006d", "ue006e", "ue006f",
      "ue0070", "ue0071", "ue0072", "ue0073", "ue0074", "ue0075", "ue0076", "ue0077", "ue0078",
      "ue0079", "ue007a", "ue007b", "ue007c", "ue007d", "ue007e", "ue007f", "ue0100", "ue0101",
      "ue0102", "ue0103", "ue0104", "ue0105", "ue0106", "ue0107", "ue0108", "ue0109", "ue010a",
      "ue010b", "ue010c", "ue010d", "ue010e", "ue010f", "ue0110", "ue0111", "ue0112", "ue0113",
      "ue0114", "ue0115", "ue0116", "ue0117", "ue0118", "ue0119", "ue011a", "ue011b", "ue011c",
      "ue011d", "ue011e", "ue011f", "ue0120", "ue0121", "ue0122", "ue0123", "ue0124", "ue0125",
      "ue0126", "ue0127", "ue0128", "ue0129", "ue012a", "ue012b", "ue012c", "ue012d", "ue012e",
      "ue012f", "ue0130", "ue0131", "ue0132", "ue0133", "ue0134", "ue0135", "ue0136", "ue0137",
      "ue0138", "ue0139", "ue013a", "ue013b", "ue013c", "ue013d", "ue013e", "ue013f", "ue0140",
      "ue0141", "ue0142", "ue0143", "ue0144", "ue0145", "ue0146", "ue0147", "ue0148", "ue0149",
      "ue014a", "ue014b", "ue014c", "ue014d", "ue014e", "ue014f", "ue0150", "ue0151", "ue0152",
      "ue0153", "ue0154", "ue0155", "ue0156", "ue0157", "ue0158", "ue0159", "ue015a", "ue015b",
      "ue015c", "ue015d", "ue015e", "ue015f", "ue0160", "ue0161", "ue0162", "ue0163", "ue0164",
      "ue0165", "ue0166", "ue0167", "ue0168", "ue0169", "ue016a", "ue016b", "ue016c", "ue016d",
      "ue016e", "ue016f", "ue0170", "ue0171", "ue0172", "ue0173", "ue0174", "ue0175", "ue0176",
      "ue0177", "ue0178", "ue0179", "ue017a", "ue017b", "ue017c", "ue017d", "ue017e", "ue017f",
      "ue0180", "ue0181", "ue0182", "ue0183", "ue0184", "ue0185", "ue0186", "ue0187", "ue0188",
      "ue0189", "ue018a", "ue018b", "ue018c", "ue018d", "ue018e", "ue018f", "ue0190", "ue0191",
      "ue0192", "ue0193", "ue0194", "ue0195", "ue0196", "ue0197", "ue0198", "ue0199", "ue019a",
      "ue019b", "ue019c", "ue019d", "ue019e", "ue019f", "ue01a0", "ue01a1", "ue01a2", "ue01a3",
      "ue01a4", "ue01a5", "ue01a6", "ue01a7", "ue01a8", "ue01a9", "ue01aa", "ue01ab", "ue01ac",
      "ue01ad", "ue01ae", "ue01af", "ue01b0", "ue01b1", "ue01b2", "ue01b3", "ue01b4", "ue01b5",
      "ue01b6", "ue01b7", "ue01b8", "ue01b9", "ue01ba", "ue01bb", "ue01bc", "ue01bd", "ue01be",
      "ue01bf", "ue01c0", "ue01c1", "ue01c2", "ue01c3", "ue01c4", "ue01c5", "ue01c6", "ue01c7",
      "ue01c8", "ue01c9", "ue01ca", "ue01cb", "ue01cc", "ue01cd", "ue01ce", "ue01cf", "ue01d0",
      "ue01d1", "ue01d2", "ue01d3", "ue01d4", "ue01d5", "ue01d6", "ue01d7", "ue01d8", "ue01d9",
      "ue01da", "ue01db", "ue01dc", "ue01dd", "ue01de", "ue01df", "ue01e0", "ue01e1", "ue01e2",
      "ue01e3", "ue01e4", "ue01e5", "ue01e6", "ue01e7", "ue01e8", "ue01e9", "ue01ea", "ue01eb",
      "ue01ec", "ue01ed", "ue01ee", "ue01ef" }

\* s[i] is in the Final_Sigma context: case-ignorable characters skipped, a
\* cased character comes before it and none after it
FinalSigma(s, i) ==
    /\ \E j \in 1..(i - 1) :
          /\ s[j] \in Cased
          /\ \A k \in (j + 1)..(i - 1) : s[k] \in CaseIgnorable
    /\ ~\E j \in (i + 1)..Len(s) :
          /\ s[j] \in Cased
          /\ \A k \in (i + 1)..(j - 1) : s[k] \in CaseIgnorable

\* str.lower() of s from position i on: U+03A3 becomes U+03C2 in the
\* Final_Sigma context and U+03C3 elsewhere
RECURSIVE LowerFrom(_, _)
LowerFrom(s, i) ==
    IF i > Len(s) THEN <<>>
    ELSE (IF s[i] = "u03a3" /\ FinalSigma(s, i) THEN <<"u03c2">> ELSE LowerChar(s[i]))
         \o LowerFrom(s, i + 1)

\* str.lower()
Lower(s) == LowerFrom(s, 1)

\* str.lstrip()
RECURSIVE LStrip(_)
LStrip(s) == IF s # <<>> /\ IsSpace(Head(s)) THEN LStrip(Tail(s)) ELSE s

\* str.rstrip()
RECURSIVE RStrip(_)
RStrip(s) ==
    IF s # <<>> /\ IsSpace(s[Len(s)]) THEN RStrip(SubSeq(s, 1, Len(s) - 1)) ELSE s

\* str.strip()
Strip(s) == RStrip(LStrip(s))

\* sub in s
Contains(sub, s) ==
    \E i \in 0..(Len(s) - Len(sub)) : SubSeq(s, i + 1, i + Len(sub)) = sub

\* s.startswith(sub) at position p (1-based)
StartsAt(s, p, sub) ==
    /\ p + Len(sub) - 1 <= Len(s)
    /\ SubSeq(s, p, p + Len(sub) - 1) = sub

\* s.split('\n'): the lines of s, always at least one
RECURSIVE SplitLines(_)
SplitLines(s) ==
    IF \E i \in 1..Len(s) : s[i] = NL
    THEN LET i == CHOOSE k \in 1..Len(s) :
                      s[k] = NL /\ \A j \in 1..(k - 1) : s[j] # NL
         IN  <<SubSeq(s, 1, i - 1)>> \o SplitLines(SubSeq(s, i + 1, Len(s)))
    ELSE <<s>>

\* the first position >= p whose character fails Test, Len(s)+1 if none
RunEnd(s, p, Test(_)) ==
    IF \E k \in p..Len(s) : ~Test(s[k])
    THEN CHOOSE k \in p..Len(s) : ~Test(s[k]) /\ \A j \in p..(k - 1) : Test(s[j])
    ELSE Len(s) + 1

\* \d{4} at position p
FourDigits(s, p) == p + 3 <= Len(s) /\ \A j \in p..(p + 3) : IsDigit(s[j])

\* the end of the line holding position p ('.' does not match a newline)
LineEnd(s, p) == RunEnd(s, p, LAMBDA c : c # NL) - 1

\* the least element of a non-empty set of positions
Least(S) == CHOOSE x \in S : \A y \in S : x <= y

----------------------------------------------------------------------------
(* The date regexes of the item loops, as re.findall finds the first match. *)

\* r'([A-Za-z]+\s+\d{4}.*)' matches with its first character at p
ExpDateAt(s, p) ==
    /\ IsLetter(s[p])
    /\ LET e == RunEnd(s, p, IsLetter)
       IN  /\ e <= Len(s)
           /\ IsSpace(s[e])
           /\ FourDigits(s, RunEnd(s, e, IsSpace))

ExpDateStarts(s) == {p \in 1..Len(s) : ExpDateAt(s, p)}

\* dates[0] of re.findall(r'([A-Za-z]+\s+\d{4}.*)', item_text)
ExpDate(s) ==
    LET p == Least(ExpDateStarts(s))
        f == RunEnd(s, RunEnd(s, p, IsLetter), IsSpace)
    IN  SubSeq(s, p, LineEnd(s, f + 4))

\* the character U+2013 (en dash), which a TLA+ string cannot hold
EnDash == "u2013"

IsDash(c) == c \in {"-", EnDash}

EduDateStarts(s) == {p \in 1..Len(s) : FourDigits(s, p)}

\* dates[0] of re.findall(r'(\d{4}\s*[-\u2013]\s*\d{4}|\d{4})', item_text)
EduDate(s) ==
    LET p == Least(EduDateStarts(s))
        q == RunEnd(s, p + 4, IsSpace)
        r == RunEnd(s, q + 1, IsSpace)
    IN  IF q <= Len(s) /\ IsDash(s[q]) /\ FourDigits(s, r)
        THEN SubSeq(s, p, r + 3)
        ELSE SubSeq(s, p, p + 3)

Issued == <<"I","s","s","u","e","d">>

Expires == <<"E","x","p","i","r","e","s">>

\* group 2, ([A-Za-z]+\s+\d{4}), matches with its first character at p
CertNameAt(s, p) == p <= Len(s) /\ ExpDateAt(s, p)

\* where group 2 starts when r'(Issued|Expires)?\s*([A-Za-z]+\s+\d{4})' is
\* tried at position i: the optional word is taken first, then skipped; 0 if
\* neither way matches
CertGroupAt(s, i) ==
    LET w == IF StartsAt(s, i, Issued) THEN Len(Issued)
             ELSE IF StartsAt(s, i, Expires) THEN Len(Expires) ELSE 0
        a == RunEnd(s, i + w, IsSpace)
        b == RunEnd(s, i, IsSpace)
    IN  IF w > 0 /\ CertNameAt(s, a) THEN a
        ELSE IF CertNameAt(s, b) THEN b ELSE 0

CertDateStarts(s) == {i \in 1..Len(s) : CertGroupAt(s, i) > 0}

\* dates[0][1] of re.findall(r'(Issued|Expires)?\s*([A-Za-z]+\s+\d{4})', item_text)
CertDate(s) ==
    LET p == CertGroupAt(s, Least(CertDateStarts(s)))
        f == RunEnd(s, RunEnd(s, p, IsLetter), IsSpace)
    IN  SubSeq(s, p, f + 3)

----------------------------------------------------------------------------
(* URLs and the login success tests.                                       *)

LoginUrl == <<"h","t","t","p","s",":","/","/","w","w","w",".","l","i","n","k","e","d","i","n",".","c","o","m","/","l","o","g","i","n">>

RootUrl == <<"h","t","t","p","s",":","/","/","w","w","w",".","l","i","n","k","e","d","i","n",".","c","o","m","/">>

FeedUrl == RootUrl \o <<"f","e","e","d","/">>

NetworkUrl == RootUrl \o <<"m","y","n","e","t","w","o","r","k","/">>

ProfileUrl == RootUrl \o <<"i","n","/","j","a","n","e","/">>

ChallengeUrl == RootUrl \o <<"c","h","e","c","k","p","o","i","n","t","/","c","h","a","l","l","e","n","g","e">>

RootQueryUrl == RootUrl \o <<"?","t","r","k","=","x">>

\* the URLs the browser may report as current_url
Urls == {LoginUrl, RootUrl, FeedUrl, NetworkUrl, ProfileUrl, ChallengeUrl, RootQueryUrl}

\* a test that takes every URL under the site's root for the bare root
ManualMatchPrefix(u) ==
    \/ Contains(<<"f","e","e","d">>, u)
    \/ Contains(<<"m","y","n","e","t","w","o","r","k">>, u)
    \/ StartsAt(u, 1, RootUrl)
    \/ Contains(<<"/","i","n","/">>, u)

\* the test of manual_login_flow on one read of current_url
ManualMatch(u) ==
    \/ Contains(<<"f","e","e","d">>, u)
    \/ Contains(<<"m","y","n","e","t","w","o","r","k">>, u)
    \/ u = RootUrl
    \/ Contains(<<"/","i","n","/">>, u)

wait_time == 120

poll_sleep == 2

----------------------------------------------------------------------------
(* What the browser answers, and Python values.                            *)

\* find_element(...).text returned t
Ok(t) == [ok |-> TRUE, text |-> t]

\* find_element, or .text on the element, raised
Fail == [ok |-> FALSE, text |-> <<>>]

\* find_elements(...) returned the elements l
OkList(l) == [ok |-> TRUE, list |-> l]

\* find_elements(...) raised
FailList == [ok |-> FALSE, list |-> <<>>]

\* None
None == [none |-> TRUE, s |-> <<>>]

\* the str t
Str(t) == [none |-> FALSE, s |-> t]

\* bool(v) of a value that is None or a str
Truthy(v) == ~v.none /\ v.s # <<>>

\* {}
EmptyDict == [k \in {} |-> <<>>]

\* d[k] = v
Put(d, k, v) == [x \in (DOMAIN d) \cup {k} |-> IF x = k THEN v ELSE d[x]]

Min(a, b) == IF a <= b THEN a ELSE b

\* l[:n]
Take(l, n) == SubSeq(l, 1, Min(n, Len(l)))

ExpCap == 15

EduCap == 10

CertCap == 10

SkillsExpandedCap == 20

SkillsMainCap == 10

NameMinLen == 2

AboutMinLen == 20

----------------------------------------------------------------------------
(* The body of the three item loops. An item element answers .text and     *)
(* the per-item locators: bold (span[class*='t-bold'], h3, strong), t14    *)
(* (span[class*='t-14']), light (span[class*='t-black--light']), small     *)
(* (span[class*='text-body-small'], find_elements), more                   *)
(* (div[class*='show-more']).                                              *)

\* `if not item_text: continue`, or item.text raised
ExpSkip(item) == ~item.text.ok \/ item.text.text = <<>>

\* exp_data after the five sub-field blocks of the experience loop
ExpData(item) ==
    LET t == item.text.text
        lines == SplitLines(t)
        d1 == IF item.bold.ok THEN Put(EmptyDict, "title", Strip(item.bold.text))
              ELSE Put(EmptyDict, "title", lines[1])
        d2 == IF item.t14.ok THEN Put(d1, "company", Strip(item.t14.text))
              ELSE IF Len(lines) > 1 THEN Put(d1, "company", lines[2]) ELSE d1
        d3 == IF item.light.ok THEN Put(d2, "duration", Strip(item.light.text))
              ELSE IF ExpDateStarts(t) # {} THEN Put(d2, "duration", ExpDate(t)) ELSE d2
        d4 == IF item.small.ok /\ item.small.list # <<>>
                 /\ item.small.list[Len(item.small.list)].ok
              THEN Put(d3, "location", Strip(item.small.list[Len(item.small.list)].text))
              ELSE d3
        d5 == IF item.more.ok THEN Put(d4, "description", Strip(item.more.text)) ELSE d4
    IN  d5

\* `if exp_data and ("title" in exp_data or "company" in exp_data)`
ExpKeep(d) == DOMAIN d # {} /\ ("title" \in DOMAIN d \/ "company" \in DOMAIN d)

\* one pass of the experience loop body on profile_data pd
ExpItem(pd, item) ==
    IF ExpSkip(item) THEN pd
    ELSE LET d == ExpData(item)
         IN  IF ExpKeep(d)
             THEN [pd EXCEPT !.experience = Append(@, d),
                             !.current_company =
                                 IF ~Truthy(@) /\ "company" \in DOMAIN d
                                 THEN Str(d["company"]) ELSE @]
             ELSE pd

\* `if not item_text or "education" not in item_text.lower(): continue`
EduSkip(item) ==
    \/ ~item.text.ok
    \/ item.text.text = <<>>
    \/ ~Contains(<<"e","d","u","c","a","t","i","o","n">>, Lower(item.text.text))

\* edu_data after the three sub-field blocks of the education loop
EduData(item) ==
    LET t == item.text.text
        lines == SplitLines(t)
        d1 == IF item.bold.ok THEN Put(EmptyDict, "school", Strip(item.bold.text))
              ELSE Put(EmptyDict, "school", lines[1])
        d2 == IF item.t14.ok THEN Put(d1, "degree", Strip(item.t14.text))
              ELSE IF Len(lines) > 1 THEN Put(d1, "degree", lines[2]) ELSE d1
        d3 == IF EduDateStarts(t) # {} THEN Put(d2, "duration", EduDate(t)) ELSE d2
    IN  d3

EduKeep(d) == DOMAIN d # {} /\ ("school" \in DOMAIN d \/ "degree" \in DOMAIN d)

\* one pass of the education loop body
EduItem(pd, item) ==
    IF EduSkip(item) THEN pd
    ELSE LET d == EduData(item)
         IN  IF EduKeep(d) THEN [pd EXCEPT !.education = Append(@, d)] ELSE pd

CertSkip(item) == ~item.text.ok \/ item.text.text = <<>>

\* cert_data after the three sub-field blocks of the certifications loop
CertData(item) ==
    LET t == item.text.text
        lines == SplitLines(t)
        d1 == IF item.bold.ok THEN Put(EmptyDict, "name", Strip(item.bold.text))
              ELSE Put(EmptyDict, "name", lines[1])
        d2 == IF item.t14.ok THEN Put(d1, "issuer", Strip(item.t14.text))
              ELSE IF Len(lines) > 1 THEN Put(d1, "issuer", lines[2]) ELSE d1
        d3 == IF CertDateStarts(t) # {} THEN Put(d2, "date", CertDate(t)) ELSE d2
    IN  d3

CertKeep(d) == DOMAIN d # {} /\ ("name" \in DOMAIN d \/ "issuer" \in DOMAIN d)

\* one pass of the certifications loop body
CertItem(pd, item) ==
    IF CertSkip(item) THEN pd
    ELSE LET d == CertData(item)
         IN  IF CertKeep(d) THEN [pd EXCEPT !.certifications = Append(@, d)] ELSE pd

CertKeywords ==
    { <<"c","e","r","t","i","f","i","e","d">>,
      <<"c","e","r","t","i","f","i","c","a","t","i","o","n">>,
      <<"l","i","c","e","n","s","e">>,
      <<"c","r","e","d","e","n","t","i","a","l">> }

\* strategy 2 of the certifications: the pvs-entity divs whose lowered text
\* holds a keyword (a div whose .text raises is passed over)
CertFilter(divs) ==
    SelectSeq(divs, LAMBDA div :
        div.text.ok /\ \E kw \in CertKeywords : Contains(kw, Lower(div.text.text)))

----------------------------------------------------------------------------
(* The texts the pages of the model hold.                                  *)

\* ''
T_empty == <<>>

\* ' '
T_ws == <<" ">>

\* 'Jane Doe'
T_name == <<"J","a","n","e"," ","D","o","e">>

\* ' Jo '
T_pad == <<" ","J","o"," ">>

\* 'Builds data tooling.'
T_about20 == <<"B","u","i","l","d","s"," ","d","a","t","a"," ","t","o","o","l","i","n","g",".">>

\* '  Builds data tooling. '
T_about20pad == <<" "," ","B","u","i","l","d","s"," ","d","a","t","a"," ","t","o","o","l","i","n","g","."," ">>

\* 'Builds data toolings.'
T_about21 == <<"B","u","i","l","d","s"," ","d","a","t","a"," ","t","o","o","l","i","n","g","s",".">>

\* ' Builds data toolings.  '
T_about21pad == <<" ","B","u","i","l","d","s"," ","d","a","t","a"," ","t","o","o","l","i","n","g","s","."," "," ">>

\* 'Engineer\nAcme\nJan 2020 - Present '
T_exp == <<"E","n","g","i","n","e","e","r",NL,"A","c","m","e",NL,"J","a","n"," ","2","0","2","0"," ","-"," ","P","r","e","s","e","n","t"," ">>

\* 'Engineer'
T_title == <<"E","n","g","i","n","e","e","r">>

\* 'Acme'
T_company == <<"A","c","m","e">>

\* 'Jan 2020'
T_when == <<"J","a","n"," ","2","0","2","0">>

\* 'Pune '
T_where == <<"P","u","n","e"," ">>

\* 'Did things'
T_desc == <<"D","i","d"," ","t","h","i","n","g","s">>

\* ' \nAcme'
T_wsline == <<" ",NL,"A","c","m","e">>

\* 'Education\nMIT\nBSc\n2010 - 2014'
T_edu == <<"E","d","u","c","a","t","i","o","n",NL,"M","I","T",NL,"B","S","c",NL,"2","0","1","0"," ","-"," ","2","0","1","4">>

\* 'MIT'
T_school == <<"M","I","T">>

\* 'BSc'
T_degree == <<"B","S","c">>

\* 'MIT\nBSc'
T_noedu == <<"M","I","T",NL,"B","S","c">>

\* 'AWS Certified\nAmazon\nIssued Jan 2020'
T_cert == <<"A","W","S"," ","C","e","r","t","i","f","i","e","d",NL,"A","m","a","z","o","n",NL,"I","s","s","u","e","d"," ","J","a","n"," ","2","0","2","0">>

\* 'AWS Certified'
T_certname == <<"A","W","S"," ","C","e","r","t","i","f","i","e","d">>

\* 'Amazon'
T_issuer == <<"A","m","a","z","o","n">>

\* 'Badge\nAcme'
T_badge == <<"B","a","d","g","e",NL,"A","c","m","e">>

\* 'SQL'
T_skill == <<"S","Q","L">>

\* ' Go '
T_skillpad == <<" ","G","o"," ">>

\* ' \r\xa0'
T_uws == <<" ","\r","u00a0">>

\* '\rJo\xa0'
T_upad == <<"\r","J","o","u00a0">>

\* '\u2003Builds data tooling.\x0c'
T_uabout20 == <<"u2003">> \o T_about20 \o <<"\f">>

\* '\xa0Builds data toolings.\r'
T_uabout21 == <<"u00a0">> \o T_about21 \o <<"\r">>

\* 'Engineer\nAcme\nJan\xa0\u0662\u0660\u0662\u0660\r- Present'
T_uexp == <<"E","n","g","i","n","e","e","r",NL,"A","c","m","e",NL,"J","a","n","u00a0","u0662","u0660","u0662","u0660","\r","-"," ","P","r","e","s","e","n","t">>

\* 'EDUCATION\nMIT\n\uff12\uff10\uff11\uff10\r\u2013\x0b\u0662\u0660\u0661\u0664'
T_uedu == <<"E","D","U","C","A","T","I","O","N",NL,"M","I","T",NL,"uff12","uff10","uff11","uff10","\r",EnDash,"u000b","u0662","u0660","u0661","u0664">>

\* '\xc9DUCAT\u0130ON \u039f\u0394\u039f\u03a3'
T_unoedu == <<"u00c9","D","U","C","A","T","u0130","O","N"," ","u039f","u0394","u039f","u03a3">>

\* 'CREDENTIAL\nAmazon\nExpires\u2003Dec\xa0\uff12\uff10\uff12\uff11'
T_ucert == <<"C","R","E","D","E","N","T","I","A","L",NL,"A","m","a","z","o","n",NL,"E","x","p","i","r","e","s","u2003","D","e","c","u00a0","uff12","uff10","uff12","uff11">>

----------------------------------------------------------------------------
(* The scalar-field and skills blocks of scrape_profile.                   *)

\* the `for elem in elements` loop of the about block on the elements l of
\* one selector: the first element whose stripped text is longer than 20;
\* an element whose .text raises ends the selector (`except: continue`)
RECURSIVE AboutPick(_)
AboutPick(l) ==
    IF l = <<>> \/ ~Head(l).ok THEN Fail
    ELSE IF Strip(Head(l).text) # <<>> /\ Len(Strip(Head(l).text)) > AboutMinLen
         THEN Ok(Strip(Head(l).text))
         ELSE AboutPick(Tail(l))

\* the `for h1 in h1_elements` loop of the name block: the first h1 whose
\* stripped text is longer than 2; an h1 whose .text raises ends the block
RECURSIVE H1Pick(_)
H1Pick(l) ==
    IF l = <<>> \/ ~Head(l).ok THEN Fail
    ELSE IF Strip(Head(l).text) # <<>> /\ Len(Strip(Head(l).text)) > NameMinLen
         THEN Ok(Strip(Head(l).text))
         ELSE H1Pick(Tail(l))

\* every element of l answers .text
TextsOk(l) == \A i \in 1..Len(l) : l[i].ok

\* [skill.text for skill in l]
TextsOf(l) == [i \in 1..Len(l) |-> l[i].text]

\* profile_data after the skills block; sk says what the browser answers:
\* showAll/click/back and section/parent tell whether the command succeeds,
\* expanded and main are the two find_elements results
Skills(pd, sk) ==
    LET a == Take(sk.expanded.list, SkillsExpandedCap)
        assigned == sk.showAll /\ sk.click /\ sk.expanded.ok /\ TextsOk(a)
        pd1 == IF assigned THEN [pd EXCEPT !.skills = TextsOf(a)] ELSE pd
        m == Take(sk.main.list, SkillsMainCap)
    IN  IF assigned /\ sk.back THEN pd1
        ELSE IF sk.section /\ sk.parent /\ sk.main.ok /\ TextsOk(m)
             THEN [pd1 EXCEPT !.skills = TextsOf(m)]
             ELSE pd1

----------------------------------------------------------------------------
(* The item elements and pages of the model.                               *)

NoLocators == [bold |-> Fail, t14 |-> Fail, light |-> Fail, small |-> FailList, more |-> Fail]

WithText(t) == [text |-> t] @@ NoLocators

\* an experience entry with an element for every sub-field
I_full ==
    [text |-> Ok(T_exp), bold |-> Ok(T_title), t14 |-> Ok(T_company),
     light |-> Ok(T_when), small |-> OkList(<<Ok(T_ws), Ok(T_where)>>),
     more |-> Ok(T_desc)]

\* the same entry as plain text only
I_text == WithText(Ok(T_exp))

\* an element with no text
I_blank == [I_full EXCEPT !.text = Ok(T_empty)]

\* an element whose .text raises
I_stale == [I_full EXCEPT !.text = Fail]

\* an element whose text and sub-field elements are all blank
I_hollow ==
    [text |-> Ok(T_ws), bold |-> Ok(T_ws), t14 |-> Ok(T_empty),
     light |-> Fail, small |-> OkList(<<>>), more |-> Fail]

\* plain text whose first line is blank
I_line == WithText(Ok(T_wsline))

\* plain text of one line
I_one == WithText(Ok(T_title))

I_edu == [WithText(Ok(T_edu)) EXCEPT !.bold = Ok(T_school), !.t14 = Ok(T_degree)]

I_edutext == WithText(Ok(T_edu))

I_noedu == WithText(Ok(T_noedu))

I_cert == [WithText(Ok(T_cert)) EXCEPT !.bold = Ok(T_certname), !.t14 = Ok(T_issuer)]

I_certtext == WithText(Ok(T_cert))

I_badge == WithText(Ok(T_badge))

\* n elements, a and b in turn
ListOf(n, a, b) == [i \in 1..n |-> IF i % 2 = 1 THEN a ELSE b]

NoSkills ==
    [showAll |-> FALSE, click |-> FALSE, expanded |-> FailList, back |-> FALSE,
     section |-> FALSE, parent |-> FALSE, main |-> FailList]

\* a page on which no locator matches anything
NoPage ==
    [load |-> "ok",
     name |-> <<Fail, Fail, Fail, Fail>>,
     h1s |-> OkList(<<>>),
     headline |-> <<Fail, Fail>>,
     location |-> <<Fail, Fail>>,
     aboutScroll |-> TRUE,
     about |-> <<OkList(<<>>), OkList(<<>>), OkList(<<>>), OkList(<<>>)>>,
     exp |-> [scroll |-> TRUE, s |-> <<FailList, OkList(<<>>), OkList(<<>>)>>],
     edu |-> [scroll |-> TRUE, s |-> <<FailList, OkList(<<>>)>>],
     cert |-> [scroll |-> TRUE, s |-> <<FailList, OkList(<<>>)>>],
     skills |-> NoSkills]

\* <h1>Jane Doe</h1> and nothing else
H1Page == [NoPage EXCEPT !.name[1] = Ok(T_name), !.h1s = OkList(<<Ok(T_name)>>)]

\* a profile with every section
FullPage ==
    [load |-> "ok",
     name |-> <<Ok(T_name), Fail, Ok(T_name), Ok(T_name)>>,
     h1s |-> OkList(<<Ok(T_name)>>),
     headline |-> <<Ok(T_title), Ok(T_title)>>,
     location |-> <<Ok(T_where), Fail>>,
     aboutScroll |-> TRUE,
     about |-> <<OkList(<<>>), OkList(<<Ok(T_about21)>>), OkList(<<>>), OkList(<<>>)>>,
     exp |-> [scroll |-> TRUE, s |-> <<OkList(<<I_full, I_text>>), OkList(<<>>), OkList(<<>>)>>],
     edu |-> [scroll |-> TRUE, s |-> <<OkList(<<I_edu>>), OkList(<<>>)>>],
     cert |-> [scroll |-> TRUE, s |-> <<OkList(<<I_cert>>), OkList(<<>>)>>],
     skills |-> [showAll |-> TRUE, click |-> TRUE,
                 expanded |-> OkList(<<Ok(T_skill)>>), back |-> TRUE,
                 section |-> TRUE, parent |-> TRUE, main |-> OkList(<<Ok(T_skill)>>)]]

\* pages for the session life cycle: loading or scrolling may raise
PlainPages ==
    {H1Page, NoPage, FullPage}
    \cup {[H1Page EXCEPT !.load = l] : l \in {"get", "scroll1", "scroll2"}}

NameAnswers == {Fail, Ok(T_ws), Ok(T_pad)}

NamePages ==
    {[NoPage EXCEPT !.name = <<a, b, c, d>>, !.h1s = h] :
        a \in NameAnswers, b \in NameAnswers, c \in NameAnswers, d \in NameAnswers,
        h \in {FailList, OkList(<<Ok(T_pad), Ok(T_name)>>), OkList(<<Ok(T_ws), Fail, Ok(T_name)>>)}}

LineAnswers == {Fail, Ok(T_empty), Ok(T_ws), Ok(T_pad)}

HeadlinePages ==
    {[NoPage EXCEPT !.headline = <<a, b>>] : a \in LineAnswers, b \in LineAnswers}

LocationPages ==
    {[NoPage EXCEPT !.location = <<a, b>>] : a \in LineAnswers, b \in LineAnswers}

AboutAnswers ==
    {FailList, OkList(<<Ok(T_about20pad)>>), OkList(<<Ok(T_ws), Ok(T_about21pad)>>),
     OkList(<<Fail, Ok(T_about21)>>)}

AboutPages ==
    {[NoPage EXCEPT !.about = <<a, b, c, d>>] :
        a \in AboutAnswers, b \in AboutAnswers, c \in AboutAnswers, d \in AboutAnswers}
    \cup {[FullPage EXCEPT !.aboutScroll = FALSE]}

\* pages whose texts hold whitespace beyond the ASCII blank, tab and newline
UnicodeScalarPages ==
    {[NoPage EXCEPT !.name = <<Ok(T_uws), Ok(T_upad), Fail, Fail>>,
                    !.headline = <<Ok(T_upad), Fail>>,
                    !.location = <<Ok(T_uws), Fail>>,
                    !.about = <<OkList(<<Ok(T_uabout20), Ok(T_uabout21)>>), OkList(<<>>),
                                OkList(<<>>), OkList(<<>>)>>],
     [NoPage EXCEPT !.name = <<Ok(T_uws), Ok(T_uws), Ok(T_uws), Ok(T_uws)>>,
                    !.h1s = OkList(<<Ok(T_upad), Ok(T_name)>>),
                    !.about = <<OkList(<<Ok(T_uws), Ok(T_uabout20)>>), OkList(<<>>),
                                OkList(<<>>), OkList(<<>>)>>]}

\* pages for the scalar fields
ScalarPages ==
    NamePages \cup HeadlinePages \cup LocationPages \cup AboutPages
    \cup UnicodeScalarPages

ExpPairs ==
    {<<I_full, I_text>>, <<I_blank, I_full>>, <<I_hollow, I_line>>, <<I_stale, I_one>>,
     <<I_one, I_text>>}

\* the container strategies' answers when strategy k yields the elements l,
\* the strategies before it yield nothing and those after it one element
Cascade(n, k, l) ==
    [i \in 1..n |-> IF i = k THEN OkList(l)
                    ELSE IF i > k THEN OkList(<<I_one>>)
                    ELSE IF i % 2 = 1 THEN FailList ELSE OkList(<<>>)]

ExpPages ==
    {[NoPage EXCEPT !.exp.s = Cascade(3, k, ListOf(n, p[1], p[2]))] :
        n \in 0..(ExpCap + MaxExtra), k \in 1..3, p \in ExpPairs}
    \cup {[FullPage EXCEPT !.exp.scroll = FALSE]}

EduPairs == {<<I_edu, I_edutext>>, <<I_noedu, I_edu>>, <<I_blank, I_edutext>>}

EduPages ==
    {[NoPage EXCEPT !.edu.s = Cascade(2, k, ListOf(n, p[1], p[2]))] :
        n \in 0..(EduCap + MaxExtra), k \in 1..2, p \in EduPairs}
    \cup {[FullPage EXCEPT !.edu.scroll = FALSE]}

CertPairs == {<<I_cert, I_certtext>>, <<I_badge, I_cert>>, <<I_stale, I_certtext>>}

CertPages ==
    {[NoPage EXCEPT !.cert.s = Cascade(2, k, ListOf(n, p[1], p[2]))] :
        n \in 0..(CertCap + MaxExtra), k \in 1..2, p \in CertPairs}
    \cup {[FullPage EXCEPT !.cert.scroll = FALSE]}

SkillLists ==
    {FailList, OkList(<<>>), OkList(<<Ok(T_skill), Ok(T_skillpad), Ok(T_empty)>>),
     OkList(<<Ok(T_skill), Fail>>),
     OkList([i \in 1..(SkillsExpandedCap + MaxExtra) |-> Ok(T_skill)])}

SkillsPages ==
    {[NoPage EXCEPT !.skills = [showAll |-> a, click |-> a, expanded |-> e, back |-> b,
                                section |-> c, parent |-> c, main |-> m]] :
        a \in BOOLEAN, b \in BOOLEAN, c \in BOOLEAN, e \in SkillLists, m \in SkillLists}

\* a page whose item texts hold non-ASCII whitespace, digits and capitals
UnicodeItemPage ==
    [NoPage EXCEPT
        !.exp.s = <<OkList(<<WithText(Ok(T_uexp))>>), OkList(<<>>), OkList(<<>>)>>,
        !.edu.s = <<OkList(<<WithText(Ok(T_unoedu)), WithText(Ok(T_uedu))>>), OkList(<<>>)>>,
        !.cert.s = <<FailList, OkList(<<WithText(Ok(T_unoedu)), WithText(Ok(T_ucert))>>)>>]

\* pages for the list fields
ItemPages == ExpPages \cup EduPages \cup CertPages \cup SkillsPages \cup {UnicodeItemPage}

----------------------------------------------------------------------------
(* The state.                                                              *)

VARIABLES
    mode,          \* "function": scrape_linkedin_profile; "session": a caller's with-block
    cfg,           \* the constructor's email, password, manual_login
    batch,         \* which targets the caller scrapes
    pc,            \* where the program is
    driver,        \* self.driver: "None" or "handle"
    browser,       \* the browser behind the handle: "none", "open" or "quit"
    acquired,      \* how many times webdriver.Chrome(...) returned a handle
    quits,         \* how many times driver.quit() was invoked
    calls,         \* scrape_profile calls started
    closes,        \* explicit close() calls made
    logins,        \* login() calls made
    gets,          \* the URLs passed to driver.get, in order
    target,        \* the running call's profile_url and, once loaded, the page served for it
    profile_data,  \* the running call's record; the returned record after a return
    idx,           \* the locator strategy or the list position a loop is at
    items,         \* experience_items / education_items / certification_items
    queried,       \* the <<field, strategy>> locator queries this call has issued
    outcome,       \* the last call: "none", "running", "record", "None" or "raised"
    login_exit,    \* the return statement the last login() left by
    lstep,         \* the next step of the credential flow
    elapsed,       \* time.time() - start_time in manual_login_flow
    polls,         \* reads of current_url made by the poll loop
    current_url,   \* what the flow's last read of current_url answered
    setups,        \* setup_driver() calls made
    results,       \* what the scrape_profile calls so far gave their caller, in order
    ops            \* the running call's navigation commands and sleeps, in order

vars ==
    <<mode, cfg, batch, pc, driver, browser, acquired, quits, calls, closes, logins,
      gets, target, profile_data, idx, items, queried, outcome, login_exit, lstep,
      elapsed, polls, current_url, setups, results, ops>>

session == <<driver, browser, acquired, quits>>

inputs == <<mode, cfg, batch>>

loginVars == <<logins, login_exit, lstep, elapsed, polls, current_url>>

scrapeVars == <<profile_data, idx, items, queried>>

log == <<results, ops>>

\* "x" in `if x` for the constructor's email and password
Given(x) == x = "set"

Cfg(e, p, m) == [email |-> e, password |-> p, manual_login |-> m]

\* the (mode, configuration, batch) combinations the model starts from
Scenarios ==
    {<<"function", Cfg("None", "None", FALSE), b>> : b \in {"plain", "scalar", "items"}}
    \cup {<<"function", c, "plain">> :
            c \in {Cfg("set", "None", FALSE), Cfg("empty", "set", FALSE),
                   Cfg("set", "set", FALSE), Cfg("None", "None", TRUE),
                   Cfg("set", "set", TRUE)}}
    \cup {<<"session", c, "multi">> :
            c \in {Cfg("None", "None", FALSE), Cfg("set", "set", FALSE),
                   Cfg("None", "None", TRUE)}}

\* the targets of a batch: a profile URL and the page the site serves for it
Targets(b) ==
    IF b = "plain" THEN {[url |-> "u1", page |-> p] : p \in PlainPages}
    ELSE IF b = "multi" THEN {[url |-> u, page |-> p] : u \in {"u1", "u2"}, p \in PlainPages}
    ELSE IF b = "scalar" THEN {[url |-> "u1", page |-> p] : p \in ScalarPages}
    ELSE {[url |-> "u1", page |-> p] : p \in ItemPages}

NoTarget == [url |-> "", page |-> NoPage]

\* a record that keeps the URL of the first target the session was given
NewRecordFirstUrl(url) ==
    LET seen == SelectSeq(gets, LAMBDA u : u # "https://www.linkedin.com/login")
    IN  [url |-> IF seen # <<>> THEN seen[1] ELSE url,
         name |-> None, headline |-> None, location |-> None,
         about |-> None, current_company |-> None, experience |-> <<>>,
         education |-> <<>>, certifications |-> <<>>, skills |-> <<>>,
         languages |-> <<>>]

\* profile_data as lines 168-180 create it
NewRecord(url) ==
    [url |-> url, name |-> None, headline |-> None, location |-> None,
     about |-> None, current_company |-> None, experience |-> <<>>,
     education |-> <<>>, certifications |-> <<>>, skills |-> <<>>,
     languages |-> <<>>]

\* no profile_data yet
NoRecord == NewRecord("")

LoginPage == "https://www.linkedin.com/login"

Init ==
    /\ \E s \in Scenarios : mode = s[1] /\ cfg = s[2] /\ batch = s[3]
    /\ pc = "idle"
    /\ driver = "None"
    /\ browser = "none"
    /\ acquired = 0
    /\ quits = 0
    /\ calls = 0
    /\ closes = 0
    /\ logins = 0
    /\ gets = <<>>
    /\ target = NoTarget
    /\ profile_data = NoRecord
    /\ idx = 0
    /\ items = <<>>
    /\ queried = {}
    /\ outcome = "none"
    /\ login_exit = "none"
    /\ lstep = 0
    /\ elapsed = 0
    /\ polls = 0
    /\ current_url = Fail
    /\ setups = 0
    /\ results = <<>>
    /\ ops = <<>>

----------------------------------------------------------------------------
(* The caller, close() and the with-block.                                 *)

\* a scrape_profile that logs in again while the last login() did not succeed
CallScrapeRelogin ==
    /\ pc = "idle"
    /\ calls < (IF mode = "function" THEN 1 ELSE MaxCalls)
    /\ \E t \in Targets(batch) : target' = [url |-> t.url, page |-> NoPage]
    /\ calls' = calls + 1
    /\ outcome' = "running"
    /\ profile_data' = NoRecord
    /\ idx' = 0
    /\ items' = <<>>
    /\ queried' = {}
    /\ ops' = <<>>
    /\ pc' = IF driver = "None" THEN "setup"
             ELSE IF login_exit \notin {"none", "match"} THEN "login"
             ELSE "nav"
    /\ UNCHANGED <<inputs, session, closes, gets, loginVars, setups, results>>

\* a scrape_profile that sets up a driver in every call
CallScrapeFresh ==
    /\ pc = "idle"
    /\ calls < (IF mode = "function" THEN 1 ELSE MaxCalls)
    /\ \E t \in Targets(batch) : target' = [url |-> t.url, page |-> NoPage]
    /\ calls' = calls + 1
    /\ outcome' = "running"
    /\ profile_data' = NoRecord
    /\ idx' = 0
    /\ items' = <<>>
    /\ queried' = {}
    /\ ops' = <<>>
    /\ pc' = "setup"
    /\ UNCHANGED <<inputs, session, closes, gets, loginVars, setups, results>>

\* scrape_profile(profile_url) is entered (line 153)
CallScrape ==
    /\ pc = "idle"
    /\ calls < (IF mode = "function" THEN 1 ELSE MaxCalls)
    /\ \E t \in Targets(batch) : target' = [url |-> t.url, page |-> NoPage]
    /\ calls' = calls + 1
    /\ outcome' = "running"
    /\ profile_data' = NoRecord
    /\ idx' = 0
    /\ items' = <<>>
    /\ queried' = {}
    /\ ops' = <<>>
    /\ pc' = IF driver = "None" THEN "setup" ELSE "nav"
    /\ UNCHANGED <<inputs, session, closes, gets, loginVars, setups, results>>

\* a close() that runs only when the block ends without an exception
QuitsAfterCloseOnSuccess == IF driver # "None" /\ pc # "raised" THEN quits + 1 ELSE quits

\* quits after close(): `if self.driver: self.driver.quit()`
QuitsAfterClose == IF driver # "None" THEN quits + 1 ELSE quits

\* the browser after close()
BrowserAfterClose == IF driver # "None" THEN "quit" ELSE browser

\* a close() that forgets the handle it has quit: self.driver = None
CallCloseReset ==
    /\ pc = "idle"
    /\ mode = "session"
    /\ closes < MaxCloses
    /\ closes' = closes + 1
    /\ quits' = QuitsAfterClose
    /\ browser' = BrowserAfterClose
    /\ driver' = "None"
    /\ \E ok \in BOOLEAN : pc' = IF ok \/ driver = "None" THEN "idle" ELSE "raised"
    /\ UNCHANGED <<inputs, acquired, calls, setups, log, gets, target, scrapeVars, outcome,
                   loginVars>>

\* the caller calls close() inside its with-block; quit() may raise
CallClose ==
    /\ pc = "idle"
    /\ mode = "session"
    /\ closes < MaxCloses
    /\ closes' = closes + 1
    /\ quits' = QuitsAfterClose
    /\ browser' = BrowserAfterClose
    /\ \E ok \in BOOLEAN : pc' = IF ok \/ driver = "None" THEN "idle" ELSE "raised"
    /\ UNCHANGED <<inputs, driver, acquired, calls, setups, log, gets, target, scrapeVars, outcome,
                   loginVars>>

\* the with-block is left, by its end or by an exception: __exit__ calls close()
ExitWith ==
    /\ \/ pc = "raised"
       \/ pc = "idle" /\ (mode = "function" => calls = 1)
    /\ quits' = QuitsAfterClose
    /\ browser' = BrowserAfterClose
    /\ pc' = "done"
    /\ UNCHANGED <<inputs, driver, acquired, calls, setups, log, closes, gets, target, scrapeVars,
                   outcome, loginVars>>

----------------------------------------------------------------------------
(* setup_driver and login.                                                 *)

\* `if self.manual_login or self.email and self.password` (line 155)
WantsLogin == cfg.manual_login \/ (Given(cfg.email) /\ Given(cfg.password))

\* a scrape_profile that turns a failed setup_driver into a None result
SetupDriverQuiet ==
    /\ pc = "setup"
    /\ \E r \in {"ok", "install", "chrome", "maximize"} :
         /\ driver' = IF r \in {"ok", "maximize"} THEN "handle" ELSE driver
         /\ browser' = IF r \in {"ok", "maximize"} THEN "open" ELSE browser
         /\ acquired' = IF r \in {"ok", "maximize"} THEN acquired + 1 ELSE acquired
         /\ IF r = "ok"
            THEN /\ pc' = (IF WantsLogin THEN "login" ELSE "nav")
                 /\ UNCHANGED <<outcome, results>>
            ELSE /\ pc' = "idle"
                 /\ outcome' = "None"
                 /\ results' = Append(results, "None")
    /\ setups' = setups + 1
    /\ UNCHANGED <<inputs, quits, calls, ops, closes, gets, target, scrapeVars, loginVars>>

\* setup_driver: ChromeDriverManager().install(), webdriver.Chrome(...) and
\* maximize_window() may each raise; the handle is assigned between the last two
SetupDriver ==
    /\ pc = "setup"
    /\ \E r \in {"ok", "install", "chrome", "maximize"} :
         /\ driver' = IF r \in {"ok", "maximize"} THEN "handle" ELSE driver
         /\ browser' = IF r \in {"ok", "maximize"} THEN "open" ELSE browser
         /\ acquired' = IF r \in {"ok", "maximize"} THEN acquired + 1 ELSE acquired
         /\ IF r = "ok"
            THEN /\ pc' = (IF WantsLogin THEN "login" ELSE "nav")
                 /\ UNCHANGED <<outcome, results>>
            ELSE /\ pc' = "raised"
                 /\ outcome' = "raised"
                 /\ results' = Append(results, "raised")
    /\ setups' = setups + 1
    /\ UNCHANGED <<inputs, quits, calls, ops, closes, gets, target, scrapeVars, loginVars>>

\* a login() that prefers the credentials, when given, to the manual flag
LoginCredsFirst ==
    /\ pc = "login"
    /\ logins' = logins + 1
    /\ IF Given(cfg.email) /\ Given(cfg.password)
       THEN pc' = "cred" /\ lstep' = 1 /\ UNCHANGED login_exit
       ELSE IF cfg.manual_login
            THEN pc' = "manual" /\ UNCHANGED <<login_exit, lstep>>
            ELSE pc' = "login_ret" /\ login_exit' = "nocreds" /\ UNCHANGED lstep
    /\ UNCHANGED <<inputs, session, calls, setups, log, closes, gets, target, scrapeVars, outcome,
                   elapsed, polls, current_url>>

\* login() up to the choice of flow (lines 53-59)
Login ==
    /\ pc = "login"
    /\ logins' = logins + 1
    /\ IF cfg.manual_login
       THEN pc' = "manual" /\ UNCHANGED <<login_exit, lstep>>
       ELSE IF ~Given(cfg.email) \/ ~Given(cfg.password)
            THEN pc' = "login_ret" /\ login_exit' = "nocreds" /\ UNCHANGED lstep
            ELSE pc' = "cred" /\ lstep' = 1 /\ UNCHANGED login_exit
    /\ UNCHANGED <<inputs, session, calls, setups, log, closes, gets, target, scrapeVars, outcome,
                   elapsed, polls, current_url>>

CredSteps == 7

\* a credential flow without its try/except: a command that raises leaves
\* login() and scrape_profile by the exception
CredStepNoTry ==
    /\ pc = "cred"
    /\ gets' = IF lstep = 1 THEN Append(gets, LoginPage) ELSE gets
    /\ \E ok \in BOOLEAN :
         IF ok
         THEN /\ lstep' = lstep + 1
              /\ pc' = IF lstep = CredSteps THEN "cred_check" ELSE "cred"
              /\ UNCHANGED <<login_exit, outcome>>
         ELSE /\ pc' = "raised"
              /\ outcome' = "raised"
              /\ UNCHANGED <<login_exit, lstep>>
    /\ UNCHANGED <<inputs, session, calls, setups, log, closes, logins, target, scrapeVars,
                   elapsed, polls, current_url>>

\* one command of the credential flow (lines 62-79): 1 get and sleep, 2 wait for
\* #username, 3 send_keys, 4 find #password, 5 send_keys, 6 find submit, 7 click
\* and sleep; a command that raises ends login() in its except clause
CredStep ==
    /\ pc = "cred"
    /\ gets' = IF lstep = 1 THEN Append(gets, LoginPage) ELSE gets
    /\ \E ok \in BOOLEAN :
         IF ok
         THEN /\ lstep' = lstep + 1
              /\ pc' = IF lstep = CredSteps THEN "cred_check" ELSE "cred"
              /\ UNCHANGED login_exit
         ELSE /\ pc' = "login_ret"
              /\ login_exit' = "exception"
              /\ UNCHANGED lstep
    /\ UNCHANGED <<inputs, session, calls, setups, log, closes, logins, target, scrapeVars, outcome,
                   elapsed, polls, current_url>>

\* how login() leaves lines 82-91 when its two reads of current_url answer o1, o2
CredResult(o1, o2) ==
    IF ~o1.ok THEN "exception"
    ELSE IF Contains(<<"f","e","e","d">>, o1.text) THEN "match"
    ELSE IF ~o2.ok THEN "exception"
    ELSE IF Contains(<<"m","y","n","e","t","w","o","r","k">>, o2.text) THEN "match"
    ELSE "mismatch"

\* the last of the reads of current_url that line 82 makes
LastRead(o1, o2) ==
    IF ~o1.ok \/ Contains(<<"f","e","e","d">>, o1.text) THEN o1 ELSE o2

UrlReads == {Ok(u) : u \in Urls} \cup {Fail}

\* the success test of the credential flow
CredCheck ==
    /\ pc = "cred_check"
    /\ \E o1 \in UrlReads, o2 \in UrlReads :
         /\ login_exit' = CredResult(o1, o2)
         /\ current_url' = LastRead(o1, o2)
    /\ pc' = "login_ret"
    /\ UNCHANGED <<inputs, session, calls, setups, log, closes, logins, gets, target, scrapeVars,
                   outcome, lstep, elapsed, polls>>

\* manual_login_flow up to the loop: get(login page), start_time = time.time()
ManualGet ==
    /\ pc = "manual"
    /\ gets' = Append(gets, LoginPage)
    /\ \E ok \in BOOLEAN :
         IF ok THEN pc' = "poll" /\ UNCHANGED login_exit
         ELSE pc' = "login_ret" /\ login_exit' = "exception"
    /\ elapsed' = 0
    /\ polls' = 0
    /\ UNCHANGED <<inputs, session, calls, setups, log, closes, logins, target, scrapeVars, outcome,
                   lstep, current_url>>

\* a loop condition that admits one more turn at the bound
PollAgainInclusive == elapsed <= wait_time

\* the loop condition of line 121
PollAgain == elapsed < wait_time

\* one turn of the poll loop: read current_url (taking lat time units), test it,
\* sleep 2
ManualPoll ==
    /\ pc = "poll"
    /\ PollAgain
    /\ \E o \in UrlReads, lat \in 0..MaxLatency :
         /\ polls' = polls + 1
         /\ current_url' = o
         /\ IF ~o.ok
            THEN pc' = "login_ret" /\ login_exit' = "exception" /\ elapsed' = elapsed + lat
            ELSE IF ManualMatch(o.text)
                 THEN pc' = "login_ret" /\ login_exit' = "match" /\ elapsed' = elapsed + lat
                 ELSE pc' = "poll" /\ UNCHANGED login_exit
                      /\ elapsed' = elapsed + lat + poll_sleep
    /\ UNCHANGED <<inputs, session, calls, setups, log, closes, logins, gets, target, scrapeVars,
                   outcome, lstep>>

\* the loop ends by its condition: `return False` of line 137
ManualTimeout ==
    /\ pc = "poll"
    /\ ~PollAgain
    /\ pc' = "login_ret"
    /\ login_exit' = "timeout"
    /\ UNCHANGED <<inputs, session, calls, setups, log, closes, logins, gets, target, scrapeVars,
                   outcome, lstep, elapsed, polls, current_url>>

\* what login() returned: True by lines 84 and 131, False by every other return
LoginResult == login_exit = "match"

\* a scrape_profile that raises when login() returned False
AfterLoginStrict == IF LoginResult THEN "nav" ELSE "raised"

\* where scrape_profile goes on after login() returned: line 156 drops the value
AfterLogin == "nav"

\* login() returns into line 156; the flow's locals go
LoginReturn ==
    /\ pc = "login_ret"
    /\ pc' = AfterLogin
    /\ outcome' = IF AfterLogin = "raised" THEN "raised" ELSE outcome
    /\ lstep' = 0
    /\ elapsed' = 0
    /\ polls' = 0
    /\ current_url' = Fail
    /\ UNCHANGED <<inputs, session, calls, setups, log, closes, logins, login_exit, gets, target,
                   scrapeVars>>

----------------------------------------------------------------------------
(* scrape_profile: navigation (lines 158-166).                             *)

page == target.page

\* a command sent to a browser that has been quit raises
Alive == browser = "open"

rest == <<inputs, session, calls, closes, gets, target, loginVars, setups>>

\* a scrape_profile without its outer try/except: the exception leaves the call
ReturnRaise ==
    /\ pc' = "raised"
    /\ outcome' = "raised"
    /\ results' = Append(results, "raised")
    /\ UNCHANGED scrapeVars

\* `return None` of the outer except clause (lines 562-564)
ReturnNone ==
    /\ pc' = "idle"
    /\ outcome' = "None"
    /\ results' = Append(results, "None")
    /\ UNCHANGED scrapeVars

\* driver.get(profile_url); sleep: the site serves a page for the URL
NavGet ==
    /\ pc = "nav"
    /\ gets' = Append(gets, target.url)
    /\ \E t \in Targets(batch) :
         /\ t.url = target.url
         /\ target' = t
         /\ IF Alive /\ t.page.load # "get"
            THEN /\ pc' = "scroll1"
                 /\ ops' = ops \o <<"get", "sleep5">>
                 /\ UNCHANGED <<outcome, results, scrapeVars>>
            ELSE ReturnNone /\ ops' = Append(ops, "get")
    /\ UNCHANGED <<inputs, session, calls, setups, closes, loginVars>>

\* a preparation that scrolls once only: extraction starts after the half-height
\* scroll
Scroll1Only ==
    /\ pc = "scroll1"
    /\ IF Alive /\ page.load # "scroll1"
       THEN /\ pc' = "name"
            /\ idx' = 1
            /\ profile_data' = NewRecord(target.url)
            /\ ops' = ops \o <<"scroll_half", "sleep2">>
            /\ UNCHANGED <<outcome, results, items, queried>>
       ELSE ReturnNone /\ ops' = Append(ops, "scroll_half")
    /\ UNCHANGED rest

\* scroll to half the page height; sleep
Scroll1 ==
    /\ pc = "scroll1"
    /\ IF Alive /\ page.load # "scroll1"
       THEN /\ pc' = "scroll2"
            /\ ops' = ops \o <<"scroll_half", "sleep2">>
            /\ UNCHANGED <<outcome, results, scrapeVars>>
       ELSE ReturnNone /\ ops' = Append(ops, "scroll_half")
    /\ UNCHANGED rest

\* scroll to the full page height; sleep; profile_data is created
Scroll2 ==
    /\ pc = "scroll2"
    /\ IF Alive /\ page.load # "scroll2"
       THEN /\ pc' = "name"
            /\ idx' = 1
            /\ profile_data' = NewRecord(target.url)
            /\ ops' = ops \o <<"scroll_full", "sleep3">>
            /\ UNCHANGED <<outcome, results, items, queried>>
       ELSE ReturnNone /\ ops' = Append(ops, "scroll_full")
    /\ UNCHANGED rest

----------------------------------------------------------------------------
(* scrape_profile: the scalar fields (lines 182-283).                      *)

NameSelectors == 4

\* the name a selector's element gives: its stripped text, if not empty
NameOf(o) == IF o.ok /\ Strip(o.text) # <<>> THEN Ok(Strip(o.text)) ELSE Fail

\* the selector loop without its `break`: every selector is queried
NameTryNoBreak ==
    /\ pc = "name"
    /\ queried' = queried \cup {<<"name", idx>>}
    /\ LET got == NameOf(page.name[idx])
       IN  /\ profile_data' = IF got.ok THEN [profile_data EXCEPT !.name = Str(got.text)]
                              ELSE profile_data
           /\ IF idx = NameSelectors
              THEN pc' = "name_h1" /\ idx' = 0
              ELSE pc' = "name" /\ idx' = idx + 1
    /\ UNCHANGED <<rest, log, items, outcome>>

\* one turn of `for selector in selectors` (lines 193-200)
NameTry ==
    /\ pc = "name"
    /\ queried' = queried \cup {<<"name", idx>>}
    /\ LET got == NameOf(page.name[idx])
       IN  /\ profile_data' = IF got.ok THEN [profile_data EXCEPT !.name = Str(got.text)]
                              ELSE profile_data
           /\ IF got.ok \/ idx = NameSelectors
              THEN pc' = "name_h1" /\ idx' = 0
              ELSE pc' = "name" /\ idx' = idx + 1
    /\ UNCHANGED <<rest, log, items, outcome>>

\* `if not profile_data["name"]`: the scan of all h1 elements (lines 202-209)
NameH1 ==
    /\ pc = "name_h1"
    /\ IF Truthy(profile_data.name)
       THEN UNCHANGED <<profile_data, queried>>
       ELSE /\ queried' = queried \cup {<<"name", NameSelectors + 1>>}
            /\ LET got == IF page.h1s.ok THEN H1Pick(page.h1s.list) ELSE Fail
               IN  profile_data' = IF got.ok THEN [profile_data EXCEPT !.name = Str(got.text)]
                                   ELSE profile_data
    /\ pc' = "headline"
    /\ idx' = 1
    /\ UNCHANGED <<rest, log, items, outcome>>

LineSelectors == 2

\* the value a headline or location selector's element gives: its text as it is
LineOf(o) == IF o.ok THEN Ok(o.text) ELSE Fail

\* one selector of the headline (lines 215-223)
HeadlineTry ==
    /\ pc = "headline"
    /\ queried' = queried \cup {<<"headline", idx>>}
    /\ LET got == LineOf(page.headline[idx])
       IN  /\ profile_data' = IF got.ok THEN [profile_data EXCEPT !.headline = Str(got.text)]
                              ELSE profile_data
           /\ IF got.ok \/ idx = LineSelectors
              THEN pc' = "location" /\ idx' = 1
              ELSE pc' = "headline" /\ idx' = idx + 1
    /\ UNCHANGED <<rest, log, items, outcome>>

\* one selector of the location (lines 226-234)
LocationTry ==
    /\ pc = "location"
    /\ queried' = queried \cup {<<"location", idx>>}
    /\ LET got == LineOf(page.location[idx])
       IN  /\ profile_data' = IF got.ok THEN [profile_data EXCEPT !.location = Str(got.text)]
                              ELSE profile_data
           /\ IF got.ok \/ idx = LineSelectors
              THEN pc' = "about_scroll" /\ idx' = 0
              ELSE pc' = "location" /\ idx' = idx + 1
    /\ UNCHANGED <<rest, log, items, outcome>>

\* an about block without its try/except: a scroll that raises reaches the
\* outer except clause
AboutScrollAbort ==
    /\ pc = "about_scroll"
    /\ IF page.aboutScroll
       THEN pc' = "about" /\ idx' = 1 /\ UNCHANGED <<profile_data, items, queried, outcome, results>>
       ELSE ReturnNone
    /\ UNCHANGED <<rest, ops>>

\* the scroll to the top and the "see more" clicks (lines 239-255); a scroll that
\* raises ends the about block, the clicks swallow what they raise
AboutScroll ==
    /\ pc = "about_scroll"
    /\ IF page.aboutScroll THEN pc' = "about" /\ idx' = 1
       ELSE pc' = "exp" /\ idx' = 0
    /\ UNCHANGED <<rest, log, profile_data, items, queried, outcome>>

AboutSelectors == 4

\* about_text after one selector's elements
AboutOf(lo) == IF lo.ok THEN AboutPick(lo.list) ELSE Fail

\* one turn of `for selector in about_selectors` (lines 266-280)
AboutTry ==
    /\ pc = "about"
    /\ queried' = queried \cup {<<"about", idx>>}
    /\ LET got == AboutOf(page.about[idx])
       IN  /\ profile_data' = IF got.ok THEN [profile_data EXCEPT !.about = Str(got.text)]
                              ELSE profile_data
           /\ IF got.ok \/ idx = AboutSelectors
              THEN pc' = "exp" /\ idx' = 0
              ELSE pc' = "about" /\ idx' = idx + 1
    /\ UNCHANGED <<rest, log, items, outcome>>

----------------------------------------------------------------------------
(* scrape_profile: the list fields (lines 286-558) and the return.         *)

\* the scroll that opens a list block; if it raises the block is skipped
ListScroll(here, ok, skipTo) ==
    /\ pc = here
    /\ IF ok THEN pc' = here \o "_find" /\ idx' = 1
       ELSE pc' = skipTo /\ idx' = 0
    /\ items' = <<>>
    /\ UNCHANGED <<rest, log, profile_data, queried, outcome>>

\* the candidate items after container strategy k answered lo: strategy 1 keeps
\* a non-empty list, a later strategy is asked only while the list is empty
Found(k, lo, have) ==
    IF k = 1 THEN (IF lo.ok /\ lo.list # <<>> THEN lo.list ELSE have)
    ELSE IF have # <<>> THEN have
    ELSE IF lo.ok THEN lo.list ELSE have

\* one container strategy of a list block
ListFind(field, here, n, answers, loopAt) ==
    /\ pc = here
    /\ queried' = IF idx = 1 \/ items = <<>> THEN queried \cup {<<field, idx>>} ELSE queried
    /\ items' = Found(idx, answers[idx], items)
    /\ IF idx = n THEN pc' = loopAt /\ idx' = 1
       ELSE pc' = here /\ idx' = idx + 1
    /\ UNCHANGED <<rest, log, profile_data, outcome>>

ExpScroll == ListScroll("exp", page.exp.scroll, "edu")

ExpStrategies == 3

ExpFind == ListFind("experience", "exp_find", ExpStrategies, page.exp.s, "exp_items")

\* the experience loop over every candidate item
ExpItemsAll == items

\* experience_items[:15]
ExpItems == Take(items, ExpCap)

\* one turn of `for item in experience_items[:15]`, or the loop's end
ExpLoop ==
    /\ pc = "exp_items"
    /\ IF idx <= Len(ExpItems)
       THEN /\ profile_data' = ExpItem(profile_data, ExpItems[idx])
            /\ idx' = idx + 1
            /\ UNCHANGED <<pc, items>>
       ELSE /\ pc' = "edu"
            /\ idx' = 0
            /\ items' = <<>>
            /\ UNCHANGED profile_data
    /\ UNCHANGED <<rest, log, queried, outcome>>

EduScroll == ListScroll("edu", page.edu.scroll, "cert")

EduStrategies == 2

EduFind == ListFind("education", "edu_find", EduStrategies, page.edu.s, "edu_items")

\* education_items[:10]
EduItems == Take(items, EduCap)

\* one turn of `for item in education_items[:10]`, or the loop's end
EduLoop ==
    /\ pc = "edu_items"
    /\ IF idx <= Len(EduItems)
       THEN /\ profile_data' = EduItem(profile_data, EduItems[idx])
            /\ idx' = idx + 1
            /\ UNCHANGED <<pc, items>>
       ELSE /\ pc' = "cert"
            /\ idx' = 0
            /\ items' = <<>>
            /\ UNCHANGED profile_data
    /\ UNCHANGED <<rest, log, queried, outcome>>

CertScroll == ListScroll("cert", page.cert.scroll, "skills")

CertStrategies == 2

\* what the certification strategies yield: strategy 2 filters the divs it finds
CertAnswers ==
    <<page.cert.s[1],
      IF page.cert.s[2].ok THEN OkList(CertFilter(page.cert.s[2].list)) ELSE FailList>>

CertFind == ListFind("certifications", "cert_find", CertStrategies, CertAnswers, "cert_items")

\* certification_items[:10]
CertItems == Take(items, CertCap)

\* one turn of `for item in certification_items[:10]`, or the loop's end
CertLoop ==
    /\ pc = "cert_items"
    /\ IF idx <= Len(CertItems)
       THEN /\ profile_data' = CertItem(profile_data, CertItems[idx])
            /\ idx' = idx + 1
            /\ UNCHANGED <<pc, items>>
       ELSE /\ pc' = "skills"
            /\ idx' = 0
            /\ items' = <<>>
            /\ UNCHANGED profile_data
    /\ UNCHANGED <<rest, log, queried, outcome>>

\* the skills block (lines 536-558) and `return profile_data` (line 560)
SkillsReturn ==
    /\ pc = "skills"
    /\ profile_data' = Skills(profile_data, page.skills)
    /\ pc' = "idle"
    /\ outcome' = "record"
    /\ results' = Append(results, "record")
    /\ UNCHANGED <<rest, ops, idx, items, queried>>

----------------------------------------------------------------------------

Next ==
    \/ CallScrape \/ CallClose \/ ExitWith
    \/ SetupDriver \/ Login \/ CredStep \/ CredCheck
    \/ ManualGet \/ ManualPoll \/ ManualTimeout \/ LoginReturn
    \/ NavGet \/ Scroll1 \/ Scroll2
    \/ NameTry \/ NameH1 \/ HeadlineTry \/ LocationTry \/ AboutScroll \/ AboutTry
    \/ ExpScroll \/ ExpFind \/ ExpLoop
    \/ EduScroll \/ EduFind \/ EduLoop
    \/ CertScroll \/ CertFind \/ CertLoop
    \/ SkillsReturn

Spec == Init /\ [][Next]_vars

----------------------------------------------------------------------------
(* Session life cycle.                                                     *)

\* C1: in a run of scrape_linkedin_profile, quit() has not been invoked before
\* the function is left, and once it is left (by a record, by None or by an
\* exception) quit() has been invoked exactly once if a handle was acquired
Thm_C1 == mode = "function" => quits = (IF pc = "done" /\ acquired > 0 THEN 1 ELSE 0)

\* scrape_linkedin_profile was left by the exception of a setup_driver that had
\* assigned the handle, and the handle was quit once
W_C1 ==
    /\ mode = "function"
    /\ pc = "done"
    /\ outcome = "raised"
    /\ acquired = 1
    /\ quits = 1

\* C2: whatever the caller does with one scraper, quit() is invoked on the
\* acquired handle at most once
CE_C2 == quits <= 1

----------------------------------------------------------------------------
(* The login flows.                                                        *)

\* the claims' allow-list of authenticated URLs
AllowListed(u) ==
    \/ Contains(<<"f","e","e","d">>, u)
    \/ Contains(<<"m","y","n","e","t","w","o","r","k">>, u)
    \/ Contains(<<"/","i","n","/">>, u)
    \/ u = RootUrl

\* C3: when the manual flow has timed out, login() returned False, the
\* scrape_profile call that ran it does not raise, and once login() has returned
\* the call loads the target URL next
Thm_C3 ==
    (cfg.manual_login /\ login_exit = "timeout") =>
        /\ ~LoginResult
        /\ outcome # "raised"
        /\ (pc = "login_ret" => elapsed >= wait_time /\ outcome = "running")
        /\ (calls = 1 /\ pc = "login_ret" => gets = <<LoginPage>>)
        /\ (calls = 1 /\ pc \notin {"login_ret", "nav"} => gets = <<LoginPage, target.url>>)

\* after a timed-out manual login the call returned a record with a name
W_C3 ==
    /\ cfg.manual_login
    /\ login_exit = "timeout"
    /\ calls = 1
    /\ outcome = "record"
    /\ Truthy(profile_data.name)

\* C4: the poll loop goes on only after reads that match no pattern, so the
\* first matching read ends it; it returns True only on a read that matches,
\* and has then slept once per earlier read and not after the matching one
Thm_C4 ==
    cfg.manual_login =>
        /\ (pc = "poll" /\ polls > 0 =>
                /\ current_url.ok
                /\ ~AllowListed(current_url.text)
                /\ elapsed >= polls * poll_sleep)
        /\ (pc = "login_ret" /\ LoginResult =>
                /\ current_url.ok
                /\ AllowListed(current_url.text)
                /\ elapsed <= (polls - 1) * poll_sleep + polls * MaxLatency)
        /\ (pc = "login_ret" /\ current_url.ok /\ AllowListed(current_url.text) =>
                LoginResult)

\* the manual flow returned True at its third read, after two reads that
\* matched nothing
W_C4 ==
    /\ cfg.manual_login
    /\ pc = "login_ret"
    /\ login_exit = "match"
    /\ polls = 3
    /\ current_url = Ok(RootUrl)

\* C5 as claimed: a poll loop that times out has read the URL at most 60 times
\* and has blocked for 120 time units
CE_C5 ==
    (pc = "login_ret" /\ login_exit = "timeout") =>
        polls <= 60 /\ elapsed = wait_time

\* C5 as amended: the poll loop reads the URL at most 60 times; when it times
\* out it has blocked for at least 120 time units and its last read began before
\* 120; if the reads took no time it has blocked for 120 exactly, after 60 reads
Thm_C5 ==
    /\ (pc \in {"poll", "login_ret"} => polls <= wait_time \div poll_sleep)
    /\ (pc = "poll" => elapsed < wait_time + poll_sleep + MaxLatency)
    /\ (pc = "login_ret" /\ login_exit = "timeout" =>
            /\ elapsed >= wait_time
            /\ elapsed < wait_time + poll_sleep + MaxLatency
            /\ (elapsed = polls * poll_sleep =>
                    elapsed = wait_time /\ polls = wait_time \div poll_sleep))

\* the loop timed out after 60 reads that took no time
W_C5 ==
    /\ pc = "login_ret"
    /\ login_exit = "timeout"
    /\ polls = 60
    /\ elapsed = wait_time

\* C6: in the credential flow no exception leaves login(): a command that
\* raises makes it return False; it returns True only after the submission,
\* on a current URL that holds 'feed' or 'mynetwork'
Thm_C6 ==
    ~cfg.manual_login =>
        /\ (logins > 0 => outcome # "raised")
        /\ (pc = "login_ret" /\ lstep <= CredSteps =>
                login_exit = "exception" /\ ~LoginResult)
        /\ (pc = "login_ret" /\ ~current_url.ok => ~LoginResult)
        /\ (pc = "login_ret" /\ LoginResult =>
                /\ lstep = CredSteps + 1
                /\ current_url.ok
                /\ \/ Contains(<<"f","e","e","d">>, current_url.text)
                   \/ Contains(<<"m","y","n","e","t","w","o","r","k">>, current_url.text))

\* the credential flow failed by an exception, and the call went on to load
\* the target and return a record
W_C6 ==
    /\ ~cfg.manual_login
    /\ logins = 1
    /\ login_exit = "exception"
    /\ gets = <<LoginPage, target.url>>
    /\ outcome = "record"

----------------------------------------------------------------------------
(* The scalar fields.                                                      *)

\* the fields resolved through an ordered list of selectors, and how many
ScalarStrategies(f) == IF f \in {"name", "about"} THEN 4 ELSE 2

CascadeFields == {"name", "headline", "location", "about"}

\* strategy j of field f finds no element on the loaded page
FindsNothing(f, j) ==
    IF f = "about" THEN ~page.about[j].ok \/ page.about[j].list = <<>>
    ELSE ~page[f][j].ok

\* the elements strategy k of field f finds
ElementsOf(f, k) ==
    IF f = "about" THEN (IF page.about[k].ok THEN page.about[k].list ELSE <<>>)
    ELSE (IF page[f][k].ok THEN <<page[f][k]>> ELSE <<>>)

\* strategies 1..k-1 of field f were queried and found nothing, and strategy k
\* was queried
FellThroughTo(f, k) ==
    /\ \A j \in 1..k : <<f, j>> \in queried
    /\ \A j \in 1..(k - 1) : FindsNothing(f, j)

\* no strategy after k was queried for field f (for the name, the scan of the
\* h1 elements counts as one more)
NoneAfter(f, k) == \A j \in (k + 1)..(ScalarStrategies(f) + 1) : <<f, j>> \notin queried

\* the first element of l whose text is not empty
HasText(l) == \E i \in 1..Len(l) : l[i].ok /\ l[i].text # <<>>

FirstText(l) == l[Least({i \in 1..Len(l) : l[i].ok /\ l[i].text # <<>>})].text

\* C7 as claimed: when strategies 1..k-1 find nothing and strategy k finds an
\* element with non-empty text, the field equals that text and no later
\* strategy is queried
CE_C7 ==
    outcome = "record" =>
        \A f \in CascadeFields : \A k \in 1..ScalarStrategies(f) :
            (FellThroughTo(f, k) /\ HasText(ElementsOf(f, k))) =>
                /\ profile_data[f] = Str(FirstText(ElementsOf(f, k)))
                /\ NoneAfter(f, k)

\* field f takes the text of element e: not empty once stripped and, for
\* about, longer than 20 characters once stripped
Acceptable(f, e) ==
    /\ e.ok
    /\ Strip(e.text) # <<>>
    /\ f = "about" => Len(Strip(e.text)) > 20

\* strategy k of field f finds an acceptable element, and every element it
\* finds before that one answers .text
Qualifies(f, k) ==
    LET l == ElementsOf(f, k)
    IN  \E i \in 1..Len(l) : Acceptable(f, l[i]) /\ \A j \in 1..(i - 1) : l[j].ok

\* the text of the first acceptable element of strategy k, stripped for name
\* and about, as found for headline and location
Resolved(f, k) ==
    LET l == ElementsOf(f, k)
        e == l[Least({i \in 1..Len(l) : Acceptable(f, l[i])})]
    IN  IF f \in {"name", "about"} THEN Strip(e.text) ELSE e.text

\* C7 as amended: when strategies 1..k-1 find nothing and strategy k finds an
\* element whose text is not empty once stripped (for about: longer than 20
\* characters once stripped, the elements before it readable), the field
\* equals that text (stripped for name and about) and no later strategy is queried
Thm_C7 ==
    outcome = "record" =>
        \A f \in CascadeFields : \A k \in 1..ScalarStrategies(f) :
            (FellThroughTo(f, k) /\ Qualifies(f, k)) =>
                /\ profile_data[f] = Str(Resolved(f, k))
                /\ NoneAfter(f, k)

\* a record was returned for a page on which the first name selector found
\* nothing, the second found a padded name and the third would have answered
W_C7 ==
    /\ outcome = "record"
    /\ FellThroughTo("name", 2)
    /\ Qualifies("name", 2)
    /\ page.name[2].text # Strip(page.name[2].text)
    /\ page.name[3].ok
    /\ profile_data.name = Str(Strip(page.name[2].text))

TopLevelFields == {"name", "headline", "location", "about", "current_company"}

\* C8: no top-level scalar field of a returned record is an empty or
\* whitespace-only string: a field whose element has such a text is None
CE_C8 ==
    outcome = "record" =>
        \A f \in TopLevelFields : profile_data[f].none \/ Strip(profile_data[f].s) # <<>>

----------------------------------------------------------------------------
(* The list fields.                                                        *)

\* a non-empty string with no leading or trailing whitespace
Trimmed(t) == t # <<>> /\ Strip(t) = t

ItemFields == {"experience", "education", "certifications"}

\* C9: in a returned record every sub-field of every experience, education and
\* certification item and every skill is a non-empty trimmed string
CE_C9 ==
    outcome = "record" =>
        /\ \A f \in ItemFields : \A i \in 1..Len(profile_data[f]) :
               \A key \in DOMAIN profile_data[f][i] : Trimmed(profile_data[f][i][key])
        /\ \A i \in 1..Len(profile_data.skills) : Trimmed(profile_data.skills[i])

\* C10: the experience list never holds more than 15 entries, the education
\* and certifications lists never more than 10
Thm_C10 ==
    /\ Len(profile_data.experience) <= 15
    /\ Len(profile_data.education) <= 10
    /\ Len(profile_data.certifications) <= 10

\* a record with 15 experience entries was returned for a page whose third
\* container strategy yielded more than 15 items
W_C10 ==
    /\ outcome = "record"
    /\ Len(page.exp.s[3].list) > ExpCap
    /\ Len(profile_data.experience) = ExpCap

----------------------------------------------------------------------------
(* The item lists.                                                         *)

\* some sub-field of the list entry d holds a non-empty value
SomeValue(d) == \E key \in DOMAIN d : d[key] # <<>>

\* C11: every entry of the experience, education and certifications lists of
\* a returned record has at least one sub-field resolved to a non-empty
\* value: an item whose sub-fields are all unresolved or empty is not appended
CE_C11 ==
    outcome = "record" =>
        \A f \in ItemFields : \A i \in 1..Len(profile_data[f]) : SomeValue(profile_data[f][i])

----------------------------------------------------------------------------
(* The record and the per-field error boundaries.                          *)

\* C12: a returned record's url is the profile_url of the call that returned
\* it, the URL last passed to driver.get, whatever earlier calls were given
Thm_C12 ==
    outcome = "record" =>
        /\ profile_data.url = target.url
        /\ profile_data.url = gets[Len(gets)]

\* on a reused session the second call, for another URL than the first, returned
\* a record although no scalar field was found
W_C12 ==
    /\ mode = "session"
    /\ outcome = "record"
    /\ results = <<"record", "record">>
    /\ gets = <<"u1", "u2">>
    /\ profile_data.url = "u2"
    /\ profile_data.name = None

\* the positions of scrape_profile after the full-height scroll
Extracting ==
    pc \in {"name", "name_h1", "headline", "location", "about_scroll", "about",
            "exp", "exp_find", "exp_items", "edu", "edu_find", "edu_items",
            "cert", "cert_find", "cert_items", "skills"}

\* no locator strategy of the scalar field f finds an element on the page
NothingFor(f) ==
    /\ \A j \in 1..ScalarStrategies(f) : FindsNothing(f, j)
    /\ f = "name" => ~page.h1s.ok \/ page.h1s.list = <<>>

\* the block of the list field opened by the scroll and container strategies b
\* fails before it has any item
NoItemsFor(b) == ~b.scroll \/ \A j \in 1..Len(b.s) : ~b.s[j].ok \/ b.s[j].list = <<>>

\* C13: once the page is loaded and scrolled, a miss or an exception in one
\* field never aborts the record: the call cannot return None or raise, a
\* scalar field no strategy finds is None, a list whose block fails is empty,
\* every field is still attempted, and a page on which only an h1 matches
\* gives the name and nothing else
Thm_C13 ==
    /\ Extracting => outcome = "running" /\ profile_data.url = target.url
    /\ outcome = "None" => queried = {} /\ profile_data = NoRecord
    /\ outcome = "record" =>
         /\ \A f \in CascadeFields : NothingFor(f) \/ (f = "about" /\ ~page.aboutScroll)
                                         => profile_data[f] = None
         /\ NoItemsFor(page.exp) => profile_data.experience = <<>>
         /\ NoItemsFor(page.edu) => profile_data.education = <<>>
         /\ NoItemsFor(page.cert) => profile_data.certifications = <<>>
         /\ {<<"name", 1>>, <<"headline", 1>>, <<"location", 1>>} \subseteq queried
         /\ page.aboutScroll => <<"about", 1>> \in queried
         /\ page.exp.scroll => <<"experience", 1>> \in queried
         /\ page.edu.scroll => <<"education", 1>> \in queried
         /\ page.cert.scroll => <<"certifications", 1>> \in queried
         /\ profile_data.skills = Skills(profile_data, page.skills).skills
         /\ page = H1Page => profile_data = [NewRecord(target.url) EXCEPT !.name = Str(T_name)]

\* a record was returned for a page whose about block raised at its scroll:
\* about is None, and experience and skills, which come later, were gathered
W_C13 ==
    /\ outcome = "record"
    /\ ~page.aboutScroll
    /\ profile_data.about = None
    /\ Truthy(profile_data.name)
    /\ profile_data.experience # <<>>
    /\ profile_data.skills # <<>>

\* a record was returned for the page on which only an h1 matches
W_C13_h1 ==
    /\ outcome = "record"
    /\ page = H1Page
    /\ profile_data.name = Str(T_name)
    /\ profile_data.headline = None

----------------------------------------------------------------------------
(* Navigation failures, acquisition failures and session reuse.            *)

\* the commands of lines 159-165 up to and including the one that raises on a
\* page whose loading fails at `load`
OpsUntil(load) ==
    IF load = "get" THEN <<"get">>
    ELSE IF load = "scroll1" THEN <<"get", "sleep5", "scroll_half">>
    ELSE <<"get", "sleep5", "scroll_half", "sleep2", "scroll_full">>

\* the last scrape_profile call returned None and close() was never called
LastGaveNone ==
    /\ results # <<>>
    /\ results[Len(results)] = "None"
    /\ closes = 0
    /\ pc # "done"

\* C14: a call on an open browser in which loading the target or a scroll
\* raises returns None, not an exception, with no field queried; it leaves the
\* handle open; and the
\* next call on the scraper acquires nothing anew and navigates to its own target
Thm_C14 ==
    /\ (outcome \in {"record", "None", "raised"} /\ closes = 0 /\ ops # <<>>
            /\ page.load # "ok") =>
           /\ outcome = "None"
           /\ ops = OpsUntil(page.load)
           /\ queried = {}
    /\ outcome = "raised" => ops = <<>>
    /\ LastGaveNone =>
           /\ driver = "handle" /\ browser = "open" /\ quits = 0
           /\ outcome = "running" =>
                  /\ pc \notin {"setup", "login", "cred", "cred_check", "manual", "poll", "login_ret"}
                  /\ ops # <<>> => gets[Len(gets)] = target.url

\* on one scraper a first call returned None and the second, for another
\* target, returned a record with a name, using the one handle acquired
W_C14 ==
    /\ results = <<"None", "record">>
    /\ closes = 0
    /\ gets = <<"u1", "u2">>
    /\ acquired = 1
    /\ Truthy(profile_data.name)

\* C15: a setup_driver that fails makes scrape_profile raise, not return None;
\* setup_driver is called once, with no retry; and after the failure there is
\* no login and no navigation
Thm_C15 ==
    /\ setups <= 1
    /\ (setups = 1 /\ acquired = 0 /\ pc # "setup") => outcome = "raised"
    /\ outcome = "raised" =>
           /\ pc \in {"raised", "done"}
           /\ results = <<"raised">>
           /\ setups = 1
           /\ logins = 0
           /\ gets = <<>>
           /\ ops = <<>>

\* webdriver.Chrome(...) raised in a with-block whose scraper has credentials:
\* the exception left the block, with no handle, no login and no page loaded
W_C15 ==
    /\ mode = "session"
    /\ WantsLogin
    /\ pc = "done"
    /\ outcome = "raised"
    /\ acquired = 0
    /\ setups = 1
    /\ gets = <<>>

\* C16: in a with-block in which only scrape_profile is called, the handle is
\* acquired at most once, by the first call, and later calls reuse it; a call
\* starts only after the one before it has given its result; the browser is
\* open throughout every call and quit only when the block is left
Thm_C16 ==
    (mode = "session" /\ closes = 0) =>
        /\ acquired <= 1
        /\ setups <= 1
        /\ calls >= 2 => acquired = 1 /\ pc # "setup"
        /\ Len(results) = (IF outcome = "running" THEN calls - 1 ELSE calls)
        /\ (outcome = "running" /\ pc # "setup") => driver = "handle" /\ browser = "open"
        /\ pc # "done" => quits = 0
        /\ (pc = "done" /\ acquired = 1) => quits = 1 /\ browser = "quit"

\* a with-block scraped two targets, one after the other, on the one handle it
\* acquired, and quit it on leaving
W_C16 ==
    /\ mode = "session"
    /\ closes = 0
    /\ pc = "done"
    /\ results = <<"record", "record">>
    /\ gets = <<"u1", "u2">>
    /\ acquired = 1
    /\ setups = 1
    /\ quits = 1

----------------------------------------------------------------------------
(* current_company.                                                        *)

\* C17 as claimed: with a non-empty experience list current_company is the
\* company of the first entry, and it is None only if the list is empty
CE_C17 ==
    outcome = "record" =>
        /\ profile_data.experience # <<>> =>
               /\ "company" \in DOMAIN profile_data.experience[1]
               /\ profile_data.current_company = Str(profile_data.experience[1]["company"])
        /\ profile_data.current_company = None => profile_data.experience = <<>>

\* a record whose first experience entry has no company and whose
\* current_company is the company of its second entry
W_C17 ==
    /\ outcome = "record"
    /\ Len(profile_data.experience) >= 2
    /\ "company" \notin DOMAIN profile_data.experience[1]
    /\ "company" \in DOMAIN profile_data.experience[2]
    /\ profile_data.experience[2]["company"] # <<>>
    /\ profile_data.current_company = Str(profile_data.experience[2]["company"])

----------------------------------------------------------------------------
(* The order of the browser operations.                                    *)

\* lines 159-166 in full
Prepared == <<"get", "sleep5", "scroll_half", "sleep2", "scroll_full", "sleep3">>

\* C18: in a call the target is loaded, then a wait, the half-height scroll, a
\* wait, the full-height scroll, a wait, in this order; the URL loaded is the
\* call's target; and no locator query for a field is issued before the
\* full-height scroll and its wait
Thm_C18 ==
    /\ Len(ops) <= Len(Prepared) /\ ops = SubSeq(Prepared, 1, Len(ops))
    /\ ops # <<>> => gets[Len(gets)] = target.url
    /\ (queried # {} \/ Extracting \/ outcome = "record") => ops = Prepared

\* the first locator query of a call has been issued, after the whole
\* preparation
W_C18 ==
    /\ outcome = "running"
    /\ queried = {<<"name", 1>>}
    /\ ops = Prepared

----------------------------------------------------------------------------
(* The choice of the login flow and how often login runs.                  *)

\* the positions inside the credential flow
InCredFlow == pc \in {"cred", "cred_check"}

\* the positions inside the manual flow
InManualFlow == pc \in {"manual", "poll"}

\* C19: with manual_login the credential flow never runs, whether or not
\* email and password are given; without it the manual flow and its poll loop
\* never run; and without it and without both credentials login() is not
\* called and the login page is never loaded
Thm_C19 ==
    /\ cfg.manual_login =>
           /\ ~InCredFlow
           /\ lstep = 0
           /\ login_exit \notin {"mismatch", "nocreds"}
    /\ ~cfg.manual_login =>
           /\ ~InManualFlow
           /\ polls = 0 /\ elapsed = 0
           /\ login_exit # "timeout"
    /\ (~cfg.manual_login /\ ~(Given(cfg.email) /\ Given(cfg.password))) =>
           /\ logins = 0
           /\ pc \notin {"login", "login_ret"}
           /\ \A i \in 1..Len(gets) : gets[i] # LoginPage

\* a scraper given manual_login and both credentials is polling for the third time
W_C19 ==
    /\ cfg = Cfg("set", "set", TRUE)
    /\ pc = "poll"
    /\ polls = 2
    /\ gets = <<LoginPage>>
    /\ lstep = 0

\* the positions inside login()
InLogin == pc \in {"login", "cred", "cred_check", "manual", "poll", "login_ret"}

\* C20: login() is called at most once on a scraper, in the call that acquired
\* the handle and before that call navigates; a later call never logs in,
\* whatever the login returned
Thm_C20 ==
    /\ logins <= 1
    /\ logins = 1 => setups = 1 /\ acquired = 1
    /\ InLogin => calls = 1 /\ results = <<>> /\ ops = <<>>
    /\ calls >= 2 => ~InLogin
    /\ (calls >= 2 /\ WantsLogin /\ pc # "raised") => logins = 1

\* after a manual login that timed out, a second call on the scraper returned a
\* record with no further login
W_C20 ==
    /\ mode = "session"
    /\ login_exit = "timeout"
    /\ logins = 1
    /\ results = <<"record", "record">>
    /\ gets = <<LoginPage, "u1", "u2">>

----------------------------------------------------------------------------
(* The scraper after close().                                              *)

\* close() has quit the browser and the with-block has not been left
Released == browser = "quit" /\ pc # "done"

\* C21: once close() has quit the browser, every step keeps the stale handle
\* on the scraper, acquires no browser, calls neither setup_driver nor login(),
\* and a scrape_profile call that is running can only send its driver.get to
\* the quit browser and return None, with no field queried
Thm_C21 ==
    [][Released =>
          /\ driver = "handle" /\ driver' = "handle"
          /\ acquired' = acquired /\ setups' = setups /\ logins' = logins
          /\ browser' = "quit"
          /\ outcome = "running" =>
                 /\ pc = "nav" /\ ops = <<>>
                 /\ pc' = "idle"
                 /\ outcome' = "None"
                 /\ results' = Append(results, "None")
                 /\ gets' = Append(gets, target.url)
                 /\ queried' = {}]_vars

\* after one call returned a record and close() quit the browser, a second call
\* sent its driver.get for a page that would have loaded, and returned None
W_C21 ==
    /\ browser = "quit"
    /\ pc = "idle"
    /\ closes = 1
    /\ acquired = 1
    /\ results = <<"record", "None">>
    /\ gets = <<"u1", "u2">>
    /\ ops = <<"get">>
    /\ page = FullPage

====
